---- MODULE Spec2Model ----
(***************************************************************************)
(* Model of the guarded containers for sensitive memory:                   *)
(*   - the atomically reference-counted access guard (guard.rs, refs.rs)   *)
(*     driving the page protection of the value it holds (pages.rs,        *)
(*     boxed.rs, vec.rs);                                                  *)
(*   - the Sensitive allocator (alloc.rs) over the page primitives.        *)
(* Atomic read-modify-write operations are single steps; everything        *)
(* between two of them (a protection call, a reload) is a step of its own. *)
(***************************************************************************)
EXTENDS Integers, Naturals, Sequences, FiniteSets, TLC

(***************************************************************************)
(* Bounds of the model                                                     *)
(***************************************************************************)
\* number of threads that share the guard
Threads == 3
\* number of shared handles that may be kept in a collection at once
MaxParked == 1

Thread == 1 .. Threads

(***************************************************************************)
(* The state word: guard.rs 19-23, refs.rs 7-11                            *)
(***************************************************************************)
\* width of the state word in bits (usize, scaled down)
WordBits == 4

\* 2^WordBits: atomic arithmetic wraps at the word size
Modulus == 2 ^ WordBits

\* const ACC: usize = usize::MAX / 2 + 1  (the top bit)
ACC == 2 ^ (WordBits - 1)

\* x & Self::REF, with const REF: usize = !Self::ACC
REF(x) == x % ACC

\* const MUT: usize = usize::MAX & Self::REF
MUT == ACC - 1

\* const MAX: usize = (usize::MAX & Self::REF) - 1
MAX == MUT - 1

\* x & Self::ACC != 0
HasAcc(x) == x >= ACC

\* an or that sets no bit
OrAcc_Nothing(x) == x

\* x | Self::ACC
OrAcc(x) == IF HasAcc(x) THEN x ELSE x + ACC

\* x & !Self::ACC
ClearAcc(x) == x % ACC

\* fetch_add(1): wraps on overflow
WrapInc(x) == (x + 1) % Modulus

\* refs - 1 in a build without overflow checks
WrapDec(x) == (x + Modulus - 1) % Modulus

(***************************************************************************)
(* Protection of the pages the held value reports (its pages view):        *)
(* "none" when the view reports no pages.                                  *)
(***************************************************************************)
Protection == {"na", "ro", "rw"}
\* a lock that leaves the pages readable
Lock_ReadOnly(p) == IF p = "none" THEN p ELSE "ro"

\* Protectable::lock: protect(NoAccess) when there are pages
Lock(p) == IF p = "none" THEN p ELSE "na"
\* an unlock that protects even when the view reports no pages
Unlock_Always(p) == "ro"

\* Protectable::unlock: protect(ReadOnly) when there are pages
Unlock(p) == IF p = "none" THEN p ELSE "ro"
\* an unlock_mut that only makes the pages readable
UnlockMut_ReadOnly(p) == IF p = "none" THEN p ELSE "ro"

\* Protectable::unlock_mut: protect(ReadWrite) when there are pages
UnlockMut(p) == IF p = "none" THEN p ELSE "rw"

VARIABLES
    debug,      \* cfg!(debug_assertions): debug_assert! is compiled in
    ctor,       \* the constructor that builds the container
    word,       \* the guard's state word (AtomicUsize)
    prot,       \* protection of the pages of the pages view, or "none"
    pc,         \* per thread: position in acquire / release
    refs,       \* per thread: the local `refs` (0 while it is out of scope)
    stored,     \* shared handles kept alive in a collection
    mpc,        \* position of the owner (constructor, exclusive borrow)
    mrefs       \* what the swap of a failed debug assertion returned

gvars == <<debug, ctor, word, prot, pc, refs, stored, mpc, mrefs>>

VARIABLES
    plat,       \* "unix" or "windows"
    gran,       \* allocation granularity G in bytes
    page,       \* per page of the address space: its mapping and protection
    mem,        \* per byte of the address space: zero (0) or not (1)
    apc,        \* position of the allocator's caller
    cur,        \* size of the layout the allocation currently has
    ret,        \* pointer of the slice the last operation returned
    usable,     \* length of the slice the last operation returned
    frame0,     \* outer size of the frame when it was allocated
    req,        \* size of the layout a running shrink was called with
    snap,       \* the bytes as they were when the running operation began
    entry,      \* protection of the interior when deallocate was entered
    res         \* how the allocator operation called last ended, if it has

avars == <<plat, gran, page, mem, apc, cur, ret, usable, frame0, req, snap, entry, res>>

VARIABLES
    spc,        \* position of the caller of GuardedAlloc::new
    gpages,     \* N, the number of guard pages on each side
    gsize,      \* the size requested
    gouter,     \* the outer size computed, as the usize it is
    gframe,     \* size of the frame the Allocation owns, 0 when there is none
    ginner      \* the interior reported: offset from the frame base, length

svars == <<spc, gpages, gsize, gouter, gframe, ginner>>

\* GuardedAlloc::new is not used
SizesIdle ==
    /\ spc = "unused"
    /\ gpages = 0
    /\ gsize = 0
    /\ gouter = 0
    /\ gframe = 0
    /\ ginner = <<0, 0>>

VARIABLES
    cpc,        \* position of the constructor that moves from a source
    kind,       \* the constructor called
    text,       \* the scalars of the source text (String::from only)
    original,   \* the bytes the source held when the constructor was called
    source,     \* the bytes of the source's storage
    held        \* the bytes the container holds

mvars == <<cpc, kind, text, original, source, held>>

\* no container is built from a source
MoveIdle ==
    /\ cpc = "unused"
    /\ kind = "none"
    /\ text = <<>>
    /\ original = <<>>
    /\ source = <<>>
    /\ held = <<>>

\* A comparison of a borrowed guarded sequence with a slice (vec.rs
\* eq_slice): its position, the capacity, buffer and length of the sequence,
\* the slice, the accumulator of the fold, the indices read and the outcome.
VARIABLES epc, capacity, buffer, len, other, fold, reads, eq

evars == <<epc, capacity, buffer, len, other, fold, reads, eq>>

\* no comparison is modelled
EqIdle ==
    /\ epc = "unused"
    /\ capacity = 0
    /\ buffer = <<>>
    /\ len = 0
    /\ other = <<>>
    /\ fold = 0
    /\ reads = <<>>
    /\ eq = "none"

\* The one-time query of the page size (pages.rs INIT, PAGE_SIZE, init): the
\* state of the Once, the stored page size, the size the OS reports, the
\* number of OS queries made, the local pg of the closure, and per thread its
\* position, the calls it has left and the value its last call returned.
VARIABLES INIT, PAGE_SIZE, os, queries, pgsz, qpc, calls, got

ovars == <<INIT, PAGE_SIZE, os, queries, pgsz, qpc, calls, got>>

\* no query of the page size is modelled
OnceIdle ==
    /\ INIT = "unused"
    /\ PAGE_SIZE = <<>>
    /\ os = 0
    /\ queries = 0
    /\ pgsz = 0
    /\ qpc = [t \in Thread |-> "unused"]
    /\ calls = [t \in Thread |-> 0]
    /\ got = [t \in Thread |-> 0]

\* A normalized string (string.rs): whether it is constructed, the bytes of
\* its buffer (the whole capacity), its length, what the last call did and
\* returned, the bytes it held before the last pop (kept by a push of the
\* scalar popped that follows the pop at once), and the calls made.
VARIABLES tpc, tbuf, tlen, tlast, tret, tsnap, tops

tvars == <<tpc, tbuf, tlen, tlast, tret, tsnap, tops>>

\* no string is modelled
StringIdle ==
    /\ tpc = "unused"
    /\ tbuf = <<>>
    /\ tlen = 0
    /\ tlast = "none"
    /\ tret = "none"
    /\ tsnap = <<>>
    /\ tops = 0

\* Views of an Allocation (pages.rs): whether a range of its pages has
\* been asked for, the range start .. end, what Allocation::pages returned
\* for it, and what Pages::pages returned for it on the view of the whole
\* allocation.  A result is <<>> while there is none, <<"None">>, or
\* <<"Some", offset from the base, size>>.
VARIABLES vpc, range, aview, pview

pvars == <<vpc, range, aview, pview>>

ViewIdle ==
    /\ vpc = "unused"
    /\ range = <<0, 0>>
    /\ aview = <<>>
    /\ pview = <<>>

\* A guarded sequence of bytes and its buffer (vec.rs): position of the
\* owner, the call that runs or ran last and its argument, the guard's
\* state word, capacity and length of the inner vector, protection of the
\* pages of the buffer in use ("none": no buffer), and what has become of
\* the buffer a growth replaced ("none": nothing was replaced, a protection
\* while it is still mapped, "released" once deallocate has wiped and
\* released it).
VARIABLES rpc, rcall, radd, rword, rcap, rlen, rprot, rold

rvars == <<rpc, rcall, radd, rword, rcap, rlen, rprot, rold>>

SeqIdle ==
    /\ rpc = "unused"
    /\ rcall = "none"
    /\ radd = 0
    /\ rword = 0
    /\ rcap = 0
    /\ rlen = 0
    /\ rprot = "none"
    /\ rold = "none"

\* a Guard and a RefCount side by side: for each, the state word, the
\* protection in effect, the protection call of the latest step, and the
\* position and the loaded value of every thread and of the owner
VARIABLES machines

cvars == <<machines>>

PairIdle ==
    machines = [m \in {"Guard", "RefCount"} |->
                 [word |-> 0, prot |-> "NoAccess", call |-> "none",
                  pc |-> [t \in Thread |-> "done"],
                  refs |-> [t \in Thread |-> 0], mpc |-> "unused"]]

xvars == <<svars, mvars, evars, ovars, tvars, pvars, rvars, cvars>>

\* what the operations of a string leave alone
notString == <<gvars, avars, svars, mvars, evars, ovars, pvars, rvars, cvars>>

\* what the steps of a query of the page size leave alone
notOnce == <<gvars, avars, svars, mvars, evars, tvars, pvars, rvars, cvars>>

\* what the steps of GuardedAlloc::new leave alone
notSizes == <<gvars, avars, mvars, evars, ovars, tvars, pvars, rvars, cvars>>

\* what the steps of a constructor that moves from a source leave alone
notMove == <<gvars, avars, svars, evars, ovars, tvars, pvars, rvars, cvars>>

\* what the steps of a comparison leave alone
notEq == <<gvars, avars, svars, mvars, ovars, tvars, pvars, rvars, cvars>>

\* what the operations on a bare Allocation leave alone (they use the
\* address space of the allocator's variables)
notView == <<gvars, svars, mvars, evars, ovars, tvars, rvars, cvars>>

\* what the operations of a guarded sequence leave alone
notSeq == <<gvars, avars, svars, mvars, evars, ovars, tvars, pvars, cvars>>

\* everything but the two counters run side by side
notPair == <<gvars, avars, svars, mvars, evars, ovars, tvars, pvars, rvars>>

\* nothing but the guard and the allocator is used
ExtraIdle == SizesIdle /\ MoveIdle /\ EqIdle /\ OnceIdle /\ StringIdle /\ ViewIdle /\ SeqIdle /\ PairIdle

vars == <<gvars, avars, xvars>>

Constructors == {"Box::new", "Vec::new", "Vec::with_capacity", "Vec::from"}

\* no shared borrow is live or in progress
Quiescent ==
    /\ \A t \in Thread : pc[t] \in {"idle", "done", "overflow", "abort"}
    /\ stored = 0

\* the number of shared handles that exist
Handles == Cardinality({t \in Thread : pc[t] = "held"}) + stored

(***************************************************************************)
(* Construction.  The allocator hands out read-write pages                 *)
(* (alloc.rs 32-51); a zero-sized value or capacity has no pages.          *)
(***************************************************************************)
GuardInit ==
    /\ debug \in BOOLEAN
    /\ ctor \in Constructors
    /\ word = 0
    /\ prot \in IF ctor = "Vec::new" THEN {"none"} ELSE {"rw", "none"}
    /\ pc = [t \in Thread |-> "idle"]
    /\ refs = [t \in Thread |-> 0]
    /\ stored = 0
    /\ mpc = "new"
    /\ mrefs = 0

\* Box::new / new_without_clear: protect(NoAccess)
BoxNew ==
    /\ mpc = "new" /\ ctor = "Box::new"
    /\ prot' = Lock(prot)
    /\ mpc' = "idle"
    /\ UNCHANGED <<avars, xvars, debug, ctor, word, pc, refs, stored, mrefs>>

\* Vec::new: no allocation, nothing to protect
VecNew ==
    /\ mpc = "new" /\ ctor = "Vec::new"
    /\ mpc' = "idle"
    /\ UNCHANGED <<avars, xvars, debug, ctor, word, prot, pc, refs, stored, mrefs>>

\* Vec::from(&mut [T]): copy, zero the source, guard.inner().lock()
VecFrom ==
    /\ mpc = "new" /\ ctor = "Vec::from"
    /\ prot' = Lock(prot)
    /\ mpc' = "idle"
    /\ UNCHANGED <<avars, xvars, debug, ctor, word, pc, refs, stored, mrefs>>

(***************************************************************************)
(* Guard::mutate, as Vec::with_capacity uses it:                           *)
(* swap to ACC|MUT, run the mutation (vec.lock()), swap to 0.              *)
(* Both swaps are arguments of debug_assert_eq!.                           *)
(***************************************************************************)
MutateEnter ==
    /\ mpc = "new" /\ ctor = "Vec::with_capacity"
    /\ IF debug
       THEN /\ word' = ACC + MUT
            /\ mrefs' = word
            /\ mpc' = IF word = 0 THEN "mutate" ELSE "abort"
       ELSE /\ mpc' = "mutate"
            /\ UNCHANGED <<word, mrefs>>
    /\ UNCHANGED <<avars, xvars, debug, ctor, prot, pc, refs, stored>>

MutateRun ==
    /\ mpc = "mutate"
    /\ prot' = Lock(prot)
    /\ mpc' = "mutated"
    /\ UNCHANGED <<avars, xvars, debug, ctor, word, pc, refs, stored, mrefs>>

MutateLeave ==
    /\ mpc = "mutated"
    /\ IF debug
       THEN /\ word' = 0
            /\ mrefs' = IF word = ACC + MUT THEN 0 ELSE word
            /\ mpc' = IF word = ACC + MUT THEN "idle" ELSE "abort"
       ELSE /\ mpc' = "idle"
            /\ UNCHANGED <<word, mrefs>>
    /\ UNCHANGED <<avars, xvars, debug, ctor, prot, pc, refs, stored>>

(***************************************************************************)
(* Shared acquire: Guard::acquire, RefCount::acquire                       *)
(***************************************************************************)
\* an acquirer takes itself for the first whenever it finds ACC clear
AcquireFirst_NoAcc(x) == ~HasAcc(x)

\* if refs == 0: the first acquisition
AcquireFirst(x) == x = 0

\* fetch_add(1), then assert!(refs & REF < MAX)
AcquireFetchAdd(t) ==
    /\ pc[t] = "idle" /\ mpc = "idle"
    /\ word' = WrapInc(word)
    /\ refs' = [refs EXCEPT ![t] = word]
    /\ pc' = [pc EXCEPT ![t] =
                IF ~(REF(word) < MAX) THEN "overflow"
                ELSE IF AcquireFirst(word) THEN "unlock"
                ELSE "spin"]
    /\ UNCHANGED <<avars, xvars, debug, ctor, prot, stored, mpc, mrefs>>

\* first acquisition: self.1.unlock()
AcquireUnlock(t) ==
    /\ pc[t] = "unlock"
    /\ prot' = Unlock(prot)
    /\ pc' = [pc EXCEPT ![t] = "setacc"]
    /\ UNCHANGED <<avars, xvars, debug, ctor, word, refs, stored, mpc, mrefs>>

\* fetch_or(ACC)
AcquireFetchOr(t) ==
    /\ pc[t] = "setacc"
    /\ word' = OrAcc(word)
    /\ pc' = [pc EXCEPT ![t] = "held"]
    /\ refs' = [refs EXCEPT ![t] = 0]
    /\ UNCHANGED <<avars, xvars, debug, ctor, prot, stored, mpc, mrefs>>

\* while refs & ACC == 0 { yield_now(); refs = load() }
AcquireSpin(t) ==
    /\ pc[t] = "spin"
    /\ IF HasAcc(refs[t])
       THEN /\ pc' = [pc EXCEPT ![t] = "held"]
            /\ refs' = [refs EXCEPT ![t] = 0]
       ELSE /\ refs' = [refs EXCEPT ![t] = word]
            /\ UNCHANGED pc
    /\ UNCHANGED <<avars, xvars, debug, ctor, word, prot, stored, mpc, mrefs>>

(***************************************************************************)
(* Shared release: Guard::release, RefCount::release                       *)
(***************************************************************************)
\* a first update that decrements the last reference like any other
FirstUpdate_Decrement(x) == WrapDec(x)

\* the value the first fetch_update stores for `x`
FirstUpdate(x) == IF REF(x) = 1 THEN ClearAcc(x) ELSE WrapDec(x)
\* debug assertions of the first closure without the underflow test
FirstAsserts_NoUnderflow(x) == IF REF(x) = 1 THEN HasAcc(x) ELSE TRUE

\* the debug assertions of the first closure hold for `x`
FirstAsserts(x) == IF REF(x) = 1 THEN HasAcc(x) ELSE REF(x) > 0

\* first fetch_update: its closure has no effect, so it is one atomic step
ReleaseFirstUpdate(t) ==
    /\ IF debug /\ ~FirstAsserts(word)
       THEN /\ pc' = [pc EXCEPT ![t] = "abort"]
            /\ refs' = [refs EXCEPT ![t] = word]
            /\ UNCHANGED word
       ELSE /\ word' = FirstUpdate(word)
            /\ pc' = [pc EXCEPT ![t] = IF REF(word) = 1 THEN "load" ELSE "idle"]
            /\ UNCHANGED refs
    /\ UNCHANGED <<avars, xvars, debug, ctor, prot, stored, mpc, mrefs>>

\* Drop for Ref: release() on a handle the thread holds
ReleaseFirst(t) ==
    /\ pc[t] = "held"
    /\ ReleaseFirstUpdate(t)

\* second fetch_update: the initial load
ReleaseLoad(t) ==
    /\ pc[t] = "load"
    /\ refs' = [refs EXCEPT ![t] = word]
    /\ pc' = [pc EXCEPT ![t] = "closure"]
    /\ UNCHANGED <<avars, xvars, debug, ctor, word, prot, stored, mpc, mrefs>>
\* a closure that locks whenever a drop reaches it
SecondProtect_Lock(x, p) == Lock(p)

\* the protection the second closure leaves, called with `x`
SecondProtect(x, p) == IF x = 1 THEN Lock(p) ELSE Unlock(p)
\* a second update that restores the access bit for the last reference too
SecondUpdate_KeepAcc(x) == OrAcc(WrapDec(x))

\* the value the second closure returns for `x`
SecondUpdate(x) == IF x = 1 THEN 0 ELSE OrAcc(WrapDec(x))

\* second fetch_update: the closure runs lock() or unlock() before the
\* compare-exchange is attempted
ReleaseClosure(t) ==
    /\ pc[t] = "closure"
    /\ IF debug /\ refs[t] # 1 /\ HasAcc(refs[t])
       THEN /\ pc' = [pc EXCEPT ![t] = "abort"]
            /\ UNCHANGED prot
       ELSE /\ prot' = SecondProtect(refs[t], prot)
            /\ pc' = [pc EXCEPT ![t] = "cas"]
    /\ UNCHANGED <<avars, xvars, debug, ctor, word, refs, stored, mpc, mrefs>>

\* second fetch_update: compare-exchange; on failure the closure runs again
\* with the value found
ReleaseCas(t) ==
    /\ pc[t] = "cas"
    /\ IF word = refs[t]
       THEN /\ word' = SecondUpdate(refs[t])
            /\ pc' = [pc EXCEPT ![t] = "idle"]
            /\ refs' = [refs EXCEPT ![t] = 0]
       ELSE /\ refs' = [refs EXCEPT ![t] = word]
            /\ pc' = [pc EXCEPT ![t] = "closure"]
            /\ UNCHANGED word
    /\ UNCHANGED <<avars, xvars, debug, ctor, prot, stored, mpc, mrefs>>

(***************************************************************************)
(* Handles kept in a collection (guard.rs tests::borrow), thread exit      *)
(***************************************************************************)
Park(t, limit) ==
    /\ pc[t] = "held" /\ stored < limit
    /\ stored' = stored + 1
    /\ pc' = [pc EXCEPT ![t] = "idle"]
    /\ UNCHANGED <<avars, xvars, debug, ctor, word, prot, refs, mpc, mrefs>>

Unpark(t) ==
    /\ pc[t] = "idle" /\ stored > 0
    /\ stored' = stored - 1
    /\ pc' = [pc EXCEPT ![t] = "held"]
    /\ UNCHANGED <<avars, xvars, debug, ctor, word, prot, refs, mpc, mrefs>>

Finish(t) ==
    /\ pc[t] = "idle" /\ mpc = "idle"
    /\ pc' = [pc EXCEPT ![t] = "done"]
    /\ UNCHANGED <<avars, xvars, debug, ctor, word, prot, refs, stored, mpc, mrefs>>

(***************************************************************************)
(* Exclusive borrow: Guard::acquire_mut / release_mut (RefCount alike).    *)
(* &mut self: no shared handle exists.                                     *)
(***************************************************************************)
\* an assertion that only rejects a second exclusive borrow
AssertIdle_Shared(x) == x # ACC + MUT

\* the comparison of debug_assert_eq!(self.0.swap(ACC | MUT), 0)
AssertIdle(x) == x = 0

\* debug_assert_eq!(self.0.swap(ACC | MUT), 0): the swap is the macro's argument
AcquireMutSwapped ==
    /\ IF debug
       THEN /\ word' = ACC + MUT
            /\ mrefs' = word
            /\ mpc' = IF AssertIdle(word) THEN "unlock_mut" ELSE "abort"
       ELSE /\ mpc' = "unlock_mut"
            /\ UNCHANGED <<word, mrefs>>
    /\ UNCHANGED <<avars, xvars, debug, ctor, prot, pc, refs, stored>>

\* borrow_mut(&mut self): no shared handle exists
AcquireMutSwap ==
    /\ mpc = "idle" /\ Quiescent
    /\ AcquireMutSwapped

\* self.1.unlock_mut()
AcquireMutUnlock ==
    /\ mpc = "unlock_mut"
    /\ prot' = UnlockMut(prot)
    /\ mpc' = "held_mut"
    /\ UNCHANGED <<avars, xvars, debug, ctor, word, pc, refs, stored, mrefs>>

\* RefMut::push on a sequence without a buffer: the allocator hands out
\* read-write pages
Push ==
    /\ mpc = "held_mut" /\ prot = "none"
    /\ ctor \in {"Vec::new", "Vec::with_capacity", "Vec::from"}
    /\ prot' = "rw"
    /\ UNCHANGED <<avars, xvars, debug, ctor, word, pc, refs, stored, mpc, mrefs>>

\* debug_assert_eq!(self.0.swap(0), ACC | MUT)
ReleaseMutSwap ==
    /\ mpc = "held_mut"
    /\ IF debug
       THEN /\ word' = 0
            /\ mrefs' = IF word = ACC + MUT THEN 0 ELSE word
            /\ mpc' = IF word = ACC + MUT THEN "lock" ELSE "abort"
       ELSE /\ mpc' = "lock"
            /\ UNCHANGED <<word, mrefs>>
    /\ UNCHANGED <<avars, xvars, debug, ctor, prot, pc, refs, stored>>

\* self.1.lock()
ReleaseMutLock ==
    /\ mpc = "lock"
    /\ prot' = Lock(prot)
    /\ mpc' = "idle"
    /\ UNCHANGED <<avars, xvars, debug, ctor, word, pc, refs, stored, mrefs>>

(***************************************************************************)
(* The Sensitive allocator (alloc.rs) over the page primitives.            *)
(* Addresses are byte offsets into a small address space of whole pages;   *)
(* the pages around the frame belong to other mappings of the process.     *)
(***************************************************************************)
\* largest layout size requested
MaxSize == 9

\* page size P in bytes (a power of two, scaled down)
PageSize == 4

\* G / P on the platforms modelled: unix has G = P, windows G > P
Factors == [unix |-> {1}, windows |-> {2, 4}]

Platforms == {"unix", "windows"}

\* alignments of the layouts requested
Aligns == {1, PageSize, 2 * PageSize, 4 * PageSize}

\* (offset + align - 1) & !(align - 1)
Align(offset, align) == ((offset + align - 1) \div align) * align

\* page_align
PageAlign(offset) == Align(offset, PageSize)

\* alloc_align
AllocAlign(offset) == Align(offset, gran)

\* pub const GUARD_PAGES: usize = 1
GUARD_PAGES == 1

\* Sensitive::guard_size
GuardSize == GUARD_PAGES * PageSize

\* Sensitive::outer_size
OuterSize(size) == AllocAlign(size + 2 * GuardSize)

\* Sensitive::inner_size
InnerSize(size) == OuterSize(size) - 2 * GuardSize

\* the largest factor G / P of any platform
MaxFactor == CHOOSE f \in UNION {Factors[p] : p \in Platforms} :
    \A g \in UNION {Factors[p] : p \in Platforms} : g <= f

\* the address the operating system maps the frame at: a multiple of every G
Addr == MaxFactor * PageSize

\* the address space: the pages before the frame, the largest frame, one more
NumPages == MaxFactor + (Align(MaxSize + 2 * GuardSize, MaxFactor * PageSize) \div PageSize) + 1

PageIdx == 0 .. NumPages - 1

ByteIdx == 0 .. NumPages * PageSize - 1

\* the pages of the byte range [a, a + n)
PagesOf(a, n) == {p \in PageIdx : p * PageSize < a + n /\ (p + 1) * PageSize > a}

\* a page that is mapped and committed
Committed(s) == s \in Protection \cup {"foreign"}

\* allocate(size, protection): a fresh mapping of zero pages
OsAllocate(pg, a, n, p) == [q \in PageIdx |-> IF q \in PagesOf(a, n) THEN p ELSE pg[q]]

\* protect(ptr, size, protection) succeeds on committed pages only
CanProtect(pg, a, n) == \A q \in PagesOf(a, n) : Committed(pg[q])

\* protect(ptr, size, protection)
OsProtect(pg, a, n, p) == [q \in PageIdx |-> IF q \in PagesOf(a, n) THEN p ELSE pg[q]]

\* the reservation that starts at `a`: the pages up to the next one that
\* is free or another mapping's
Reservation(pg, a) ==
    {q \in PageIdx : q * PageSize >= a
        /\ \A r \in PageIdx : (r * PageSize >= a /\ r <= q) => pg[r] \notin {"free", "foreign"}}

\* release(ptr, size): munmap of the range on unix, VirtualFree(MEM_RELEASE)
\* of the whole reservation on windows
OsRelease(pg, a, n) ==
    [q \in PageIdx |->
        IF q \in (IF plat = "unix" THEN PagesOf(a, n) ELSE Reservation(pg, a))
        THEN "free" ELSE pg[q]]

\* uncommit(ptr, size): VirtualFree(MEM_DECOMMIT) on windows, release elsewhere
OsUncommit(pg, a, n) ==
    [q \in PageIdx |->
        IF q \in PagesOf(a, n)
        THEN (IF plat = "unix" THEN "free" ELSE "reserved")
        ELSE pg[q]]

\* a store to [a, a + n) does not trap
Writable(pg, a, n) == \A q \in PagesOf(a, n) : pg[q] = "rw"

\* zero(ptr, size)
Zero(m, a, n) == [b \in ByteIdx |-> IF a <= b /\ b < a + n THEN 0 ELSE m[b]]

\* ptr.write(0x55) over [a, a + n)
Fill(m, a, n) == [b \in ByteIdx |-> IF a <= b /\ b < a + n THEN 1 ELSE m[b]]

\* let base = addr.add(Self::guard_size())
Base == Addr + GuardSize

NoPages == [q \in PageIdx |-> IF q < MaxFactor \/ q = NumPages - 1 THEN "foreign" ELSE "free"]

NoBytes == [b \in ByteIdx |-> 0]

AllocInit ==
    /\ plat \in Platforms
    /\ gran \in {f * PageSize : f \in Factors[plat]}
    /\ page = NoPages
    /\ mem = NoBytes
    /\ apc = "start"
    /\ cur = 0
    /\ ret = 0
    /\ usable = 0
    /\ frame0 = 0
    /\ req = 0
    /\ snap = NoBytes
    /\ entry = "none"
    /\ res = "none"

\* the allocator is not used: the guard's specifications
AllocIdle ==
    /\ plat = "unix"
    /\ gran = PageSize
    /\ page = NoPages
    /\ mem = NoBytes
    /\ apc = "unused"
    /\ cur = 0
    /\ ret = 0
    /\ usable = 0
    /\ frame0 = 0
    /\ req = 0
    /\ snap = NoBytes
    /\ entry = "none"
    /\ res = "none"

\* the guard is not used: the allocator's specification
GuardIdle ==
    /\ debug \in BOOLEAN
    /\ ctor = "Vec::new"
    /\ word = 0
    /\ prot = "none"
    /\ pc = [t \in Thread |-> "done"]
    /\ refs = [t \in Thread |-> 0]
    /\ stored = 0
    /\ mpc = "unused"
    /\ mrefs = 0
\* an alignment test that lets the page size itself through
Unsupported_Above(align) == align > PageSize

\* layout.align() >= page_size()
Unsupported(align) == align >= PageSize

\* allocate: the alignment test and allocate(outer, NoAccess)
Allocate(size, align) ==
    /\ apc = "start"
    /\ IF Unsupported(align)
       THEN /\ apc' = "refused"
            /\ res' = "err"
            /\ UNCHANGED <<page, cur, frame0>>
       ELSE /\ page' = OsAllocate(page, Addr, OuterSize(size), "na")
            /\ cur' = size
            /\ frame0' = OuterSize(size)
            /\ apc' = "allocate_protect"
            /\ UNCHANGED res
    /\ UNCHANGED <<gvars, xvars, plat, gran, mem, ret, usable, req, snap, entry>>

\* allocate: if inner > 0, protect(base, inner, ReadWrite); Ok(base, inner)
AllocateProtect ==
    /\ apc = "allocate_protect"
    /\ page' = IF InnerSize(cur) > 0
               THEN OsProtect(page, Base, InnerSize(cur), "rw")
               ELSE page
    /\ ret' = Base
    /\ usable' = InnerSize(cur)
    /\ apc' = "live"
    /\ res' = "ok"
    /\ UNCHANGED <<gvars, xvars, plat, gran, mem, cur, frame0, req, snap, entry>>

\* the caller writes the first n bytes of the slice it was given
Write(n) ==
    /\ apc = "live"
    /\ n <= usable
    /\ Writable(page, ret, n)
    /\ mem' = Fill(mem, ret, n)
    /\ UNCHANGED <<gvars, xvars, plat, gran, page, apc, cur, ret, usable, frame0, req, snap, entry, res>>

\* the container protects its value: protect(ptr, page_align(size), prot)
\* (boxed.rs 27-33)
Reprotect(p) ==
    /\ apc = "live"
    /\ cur > 0
    /\ page' = OsProtect(page, ret, PageAlign(cur), p)
    /\ UNCHANGED <<gvars, xvars, plat, gran, mem, apc, cur, ret, usable, frame0, req, snap, entry, res>>

\* let inner_old = page_align(old.size())
ShrinkInnerOld(old) == PageAlign(old)
\* a new interior rounded down to whole pages
ShrinkInnerNew_Down(new) == (new \div PageSize) * PageSize

\* let inner_new = page_align(new.size())
ShrinkInnerNew(new) == PageAlign(new)

\* shrink(ptr, old, new) with new.size() < old.size(): the alignment test
\* and the test whether pages are given up
Shrink(new, align) ==
    /\ apc = "live"
    /\ new < cur
    /\ IF Unsupported(align)
       THEN /\ res' = "err"
            /\ UNCHANGED <<apc, cur, ret, usable, req, snap>>
       ELSE /\ snap' = mem
            /\ req' = new
            /\ IF ShrinkInnerOld(cur) - ShrinkInnerNew(new) >= PageSize
               THEN /\ apc' = "shrink_protect"
                    /\ UNCHANGED <<cur, ret, usable, res>>
               ELSE /\ apc' = "live"
                    /\ cur' = new
                    /\ ret' = ret
                    /\ usable' = ShrinkInnerNew(new)
                    /\ res' = "ok"
    /\ UNCHANGED <<gvars, xvars, plat, gran, page, mem, frame0, entry>>

\* let tail = ptr.as_ptr().add(inner_new)
ShrinkTail == ret + ShrinkInnerNew(req)

\* let diff = inner_old - inner_new
ShrinkDiff == ShrinkInnerOld(cur) - ShrinkInnerNew(req)

\* shrink: protect(tail, diff + guard_size, ReadWrite)
ShrinkProtect ==
    /\ apc = "shrink_protect"
    /\ IF CanProtect(page, ShrinkTail, ShrinkDiff + GuardSize)
       THEN /\ page' = OsProtect(page, ShrinkTail, ShrinkDiff + GuardSize, "rw")
            /\ apc' = "shrink_zero"
       ELSE /\ apc' = "abort"
            /\ UNCHANGED page
    /\ UNCHANGED <<gvars, xvars, plat, gran, mem, cur, ret, usable, frame0, req, snap, entry, res>>

\* the bytes shrink zeroes
ShrinkZeroed(m) == Zero(m, ShrinkTail, ShrinkDiff + GuardSize)

\* shrink: zero(tail, diff + guard_size)
ShrinkZero ==
    /\ apc = "shrink_zero"
    /\ IF Writable(page, ShrinkTail, ShrinkDiff + GuardSize)
       THEN /\ mem' = ShrinkZeroed(mem)
            /\ apc' = "shrink_uncommit"
       ELSE /\ apc' = "fault"
            /\ UNCHANGED mem
    /\ UNCHANGED <<gvars, xvars, plat, gran, page, cur, ret, usable, frame0, req, snap, entry, res>>

\* shrink: uncommit(tail.add(guard_size), diff)
ShrinkUncommit ==
    /\ apc = "shrink_uncommit"
    /\ page' = OsUncommit(page, ShrinkTail + GuardSize, ShrinkDiff)
    /\ apc' = "shrink_guard"
    /\ UNCHANGED <<gvars, xvars, plat, gran, mem, cur, ret, usable, frame0, req, snap, entry, res>>

\* shrink: protect(tail, guard_size, NoAccess); Ok(ptr, inner_new)
ShrinkGuard ==
    /\ apc = "shrink_guard"
    /\ IF CanProtect(page, ShrinkTail, GuardSize)
       THEN /\ page' = OsProtect(page, ShrinkTail, GuardSize, "na")
            /\ cur' = req
            /\ ret' = ret
            /\ usable' = ShrinkInnerNew(req)
            /\ apc' = "live"
            /\ res' = "ok"
       ELSE /\ apc' = "abort"
            /\ UNCHANGED <<page, cur, ret, usable, res>>
    /\ UNCHANGED <<gvars, xvars, plat, gran, mem, frame0, req, snap, entry>>

\* debug_assert!(layout.align() <= page_size())
DeallocateAsserts(align) == align <= PageSize

\* deallocate(ptr, layout): entered with the size the allocation has
Deallocate(align) ==
    /\ apc = "live"
    /\ IF debug /\ ~DeallocateAsserts(align)
       THEN /\ apc' = "panic"
            /\ res' = "panic"
            /\ UNCHANGED <<entry, snap>>
       ELSE /\ entry' = page[ret \div PageSize]
            /\ snap' = mem
            /\ apc' = IF cur > 0 THEN "deallocate_protect" ELSE "deallocate_release"
            /\ UNCHANGED res
    /\ UNCHANGED <<gvars, xvars, plat, gran, page, mem, cur, ret, usable, frame0, req>>

\* deallocate: protect(ptr, page_align(size), ReadWrite)
DeallocateProtect ==
    /\ apc = "deallocate_protect"
    /\ IF CanProtect(page, ret, PageAlign(cur))
       THEN /\ page' = OsProtect(page, ret, PageAlign(cur), "rw")
            /\ apc' = "deallocate_zero"
       ELSE /\ apc' = "abort"
            /\ UNCHANGED page
    /\ UNCHANGED <<gvars, xvars, plat, gran, mem, cur, ret, usable, frame0, req, snap, entry, res>>
\* a deallocate that does not zero
DeallocateZeroed_Skip(m) == m

\* the bytes deallocate zeroes
DeallocateZeroed(m) == Zero(m, ret, cur)

\* deallocate: zero(ptr, size)
DeallocateZero ==
    /\ apc = "deallocate_zero"
    /\ IF Writable(page, ret, cur)
       THEN /\ mem' = DeallocateZeroed(mem)
            /\ apc' = "deallocate_release"
       ELSE /\ apc' = "fault"
            /\ UNCHANGED mem
    /\ UNCHANGED <<gvars, xvars, plat, gran, page, cur, ret, usable, frame0, req, snap, entry, res>>
\* a deallocate that releases from the interior on
DeallocateReleased_Interior(pg) == OsRelease(pg, ret, OuterSize(cur))

\* the pages deallocate leaves behind
DeallocateReleased(pg) == OsRelease(pg, ret - GuardSize, OuterSize(cur))

\* deallocate: release(ptr - guard_size, outer_size(size))
DeallocateRelease ==
    /\ apc = "deallocate_release"
    /\ page' = DeallocateReleased(page)
    /\ apc' = "freed"
    /\ res' = "ok"
    /\ UNCHANGED <<gvars, xvars, plat, gran, mem, cur, ret, usable, frame0, req, snap, entry>>

(***************************************************************************)
(* Specification of the allocator: one allocation, written, reprotected as *)
(* a container does, shrunk any number of times, deallocated               *)
(***************************************************************************)
InitAlloc == AllocInit /\ GuardIdle /\ ExtraIdle

NextAlloc ==
    \/ \E size \in 0 .. MaxSize, align \in Aligns : Allocate(size, align)
    \/ AllocateProtect
    \/ \E n \in 1 .. NumPages * PageSize : Write(n)
    \/ \E p \in Protection : Reprotect(p)
    \/ \E new \in 0 .. MaxSize, align \in Aligns : Shrink(new, align)
    \/ ShrinkProtect
    \/ ShrinkZero
    \/ ShrinkUncommit
    \/ ShrinkGuard
    \/ \E align \in Aligns : Deallocate(align)
    \/ DeallocateProtect
    \/ DeallocateZero
    \/ DeallocateRelease

SpecAlloc == InitAlloc /\ [][NextAlloc]_vars

(***************************************************************************)
(* Specification of the guard used as its API allows                       *)
(***************************************************************************)
Construct == BoxNew \/ VecNew \/ VecFrom \/ MutateEnter \/ MutateRun \/ MutateLeave

Shared(t) ==
    \/ AcquireFetchAdd(t) \/ AcquireUnlock(t) \/ AcquireFetchOr(t) \/ AcquireSpin(t)
    \/ ReleaseFirst(t) \/ ReleaseLoad(t) \/ ReleaseClosure(t) \/ ReleaseCas(t)
    \/ Unpark(t) \/ Finish(t)

Exclusive == AcquireMutSwap \/ AcquireMutUnlock \/ Push \/ ReleaseMutSwap \/ ReleaseMutLock

Init == GuardInit /\ AllocIdle /\ ExtraIdle

Next ==
    \/ Construct
    \/ \E t \in Thread : Shared(t) \/ Park(t, MaxParked)
    \/ Exclusive

Spec == Init /\ [][Next]_vars

(***************************************************************************)
(* Specification in which shared handles may pile up to the cap MAX        *)
(* (guard.rs tests::overflow, tests::borrow)                               *)
(***************************************************************************)
NextOverflow ==
    \/ Construct
    \/ \E t \in Thread : Shared(t) \/ Park(t, MAX)
    \/ Exclusive

SpecOverflow == Init /\ [][NextOverflow]_vars

(***************************************************************************)
(* Specifications with calls outside the preconditions: acquire_mut while  *)
(* a borrow is outstanding (guard.rs tests::mutable_multiple; a handle     *)
(* passed to mem::forget stays outstanding), and release without a         *)
(* matching acquire (guard.rs tests::underflow)                            *)
(***************************************************************************)
\* acquire_mut called again while the exclusive borrow is outstanding, or
\* while shared handles are
AcquireMutBusy ==
    /\ \A t \in Thread : pc[t] \in {"idle", "done"}
    /\ \/ mpc = "held_mut"
       \/ mpc = "idle" /\ stored > 0
    /\ AcquireMutSwapped

\* release called on an idle guard by a thread that holds no handle
ReleaseUnmatched(t) ==
    /\ pc[t] = "idle" /\ mpc = "idle" /\ word = 0
    /\ ReleaseFirstUpdate(t)

NextMisuse ==
    \/ Next
    \/ AcquireMutBusy

SpecMisuse == Init /\ [][NextMisuse]_vars

NextUnderflow ==
    \/ Next
    \/ \E t \in Thread : ReleaseUnmatched(t)

SpecUnderflow == Init /\ [][NextUnderflow]_vars

(***************************************************************************)
(* Properties of the guard                                                 *)
(***************************************************************************)

\* C1: while a thread holds a shared handle (its acquire has returned, its
\* release has not started) or a shared handle is kept in a collection,
\* the protected pages are read-only: never no-access, never read-write.
C1_SharedHandleReadOnly ==
    (Handles > 0 /\ prot # "none") => prot = "ro"

\* C1 witness: one thread holds a handle over read-only pages while a
\* second one is in the middle of its acquire and a third has finished.
C1_Witness ==
    \E t, u, v \in Thread :
        /\ pc[t] = "held" /\ pc[u] = "spin" /\ pc[v] = "done"
        /\ prot = "ro"

\* C2: once every thread has finished its matched borrow/release pairs and
\* no handle is left (and the owner holds no exclusive borrow), the state
\* word is 0 and the pages are no-access.
C2_AllReleasedLocked ==
    ((\A t \in Thread : pc[t] = "done") /\ stored = 0 /\ mpc = "idle")
        => (word = 0 /\ prot \in {"na", "none"})

\* C2 witness: every thread is done, no handle is left, and the container
\* has pages.
C2_Witness ==
    /\ \A t \in Thread : pc[t] = "done"
    /\ stored = 0 /\ mpc = "idle" /\ prot = "na" /\ word = 0

\* C4: when the constructor has returned and no borrow handle, shared or
\* exclusive, is live or being acquired or released, the pages of the
\* pages view are no-access.
C4_LockedWhenUnborrowed ==
    (mpc = "idle" /\ Quiescent /\ prot # "none") => prot = "na"

\* C4 witness: a container with pages, idle after construction.
C4_Witness ==
    mpc = "idle" /\ Quiescent /\ prot = "na"

\* C8: REF = 0 implies ACC clear; ACC set implies REF > 0; REF = MUT
\* implies ACC set.
C8_WordInvariant ==
    /\ REF(word) = 0 => ~HasAcc(word)
    /\ HasAcc(word) => REF(word) > 0
    /\ REF(word) = MUT => HasAcc(word)

\* C8 witness: the word holds the exclusive sentinel.
C8_Witness ==
    REF(word) = MUT /\ HasAcc(word)

\* a step in which thread t enters a shared acquire (its fetch_add)
EntersAcquire(t) ==
    pc[t] = "idle" /\ pc'[t] \in {"overflow", "unlock", "spin"}

\* C9: a shared acquire that finds REF = MAX panics, one that finds
\* REF < MAX does not panic for overflow, and the number of shared handles
\* that exist at once never exceeds MAX.
C9_OverflowCap ==
    [][ /\ \A t \in Thread : EntersAcquire(t) =>
              /\ REF(word) = MAX => pc'[t] = "overflow"
              /\ REF(word) < MAX => pc'[t] # "overflow"
        /\ Handles' <= MAX ]_vars

\* a step in which the owner enters acquire_mut
EntersAcquireMut ==
    mpc \in {"idle", "held_mut"} /\ mpc' \in {"unlock_mut", "abort"}

\* C10 as claimed: an exclusive acquire attempted while the state word is
\* non-zero panics and grants no access.
C10_BusyAcquireMutPanics ==
    [][ (EntersAcquireMut /\ word # 0) => (mpc' = "abort" /\ prot' = prot) ]_vars

\* C10 amended: in a build with debug assertions, an exclusive acquire
\* attempted while the state word is non-zero panics and grants no access.
C10_BusyAcquireMutPanicsInDebug ==
    [][ (debug /\ EntersAcquireMut /\ word # 0)
            => (mpc' = "abort" /\ prot' = prot) ]_vars

\* C10 witness: a debug build in which acquire_mut found a non-zero word
\* (shared handles outstanding, or the exclusive sentinel) and panicked.
C10_Witness ==
    debug /\ mpc = "abort" /\ mrefs # 0 /\ word = ACC + MUT

(***************************************************************************)
(* Claims about the allocator                                              *)
(***************************************************************************)
\* the bytes [a, a + n)
Bytes(a, n) == {b \in ByteIdx : a <= b /\ b < a + n}

\* C3: whenever allocate or a successful shrink has returned, the page just
\* before the returned interior and the page just after the end of the
\* interior that was returned last are both no-access (sizes 0, 1, P-1, P,
\* P+1 lie within 0 .. MaxSize).
C3_GuardPagesNoAccess ==
    apc = "live" =>
        /\ page[(ret - PageSize) \div PageSize] = "na"
        /\ page[(ret + usable) \div PageSize] = "na"

\* C5: deallocate of a layout of size > 0 zeroes behind read-write pages,
\* and the bytes [0, size) are all zero from the moment before the release
\* on: no page of them is released while one of them is non-zero.
C5_ZeroedBeforeRelease ==
    cur > 0 =>
        /\ apc = "deallocate_zero" => Writable(page, ret, cur)
        /\ apc \in {"deallocate_release", "freed"} => \A b \in Bytes(ret, cur) : mem[b] = 0
        /\ (/\ apc \in {"deallocate_protect", "deallocate_zero", "deallocate_release", "freed"}
            /\ \E q \in PagesOf(ret, cur) : page[q] = "free")
            => \A b \in Bytes(ret, cur) : mem[b] = 0

\* C5 witness: a deallocate has released an allocation whose interior was
\* no-access and held non-zero bytes when it was entered.
C5_Witness ==
    /\ apc = "freed" /\ cur > 0 /\ entry = "na"
    /\ \E b \in Bytes(ret, cur) : snap[b] = 1

\* C6: a shrink to a smaller size with a supported alignment neither traps
\* nor aborts; when it returns, the pointer is the one it was passed and the
\* bytes [0, new.size) are as they were when it was called.
C6_ShrinkInPlace ==
    [][ /\ apc \in {"shrink_protect", "shrink_zero", "shrink_uncommit", "shrink_guard"}
            => apc' \notin {"fault", "abort"}
        /\ (apc \in {"live", "shrink_guard"} /\ apc' = "live" /\ cur' < cur)
            => /\ ret' = ret
               /\ \A b \in Bytes(ret', cur') : mem'[b] = snap'[b] ]_vars

\* C6 witness: a shrink that gave up pages has returned; the surviving
\* prefix still holds the non-zero bytes written before, the bytes given up
\* were non-zero and have been zeroed.
C6_Witness ==
    /\ apc = "live" /\ cur > 0 /\ cur = req
    /\ \A b \in Bytes(ret, cur) : snap[b] = 1 /\ mem[b] = 1
    /\ \E b \in ByteIdx : b >= ret + PageAlign(cur) /\ snap[b] = 1 /\ mem[b] = 0

\* C7: after allocate and any sequence of shrinks, when deallocate has
\* returned, no page of the original frame is mapped or reserved any more,
\* and every page outside the frame is as it was (G = P on unix, G > P on
\* windows).
C7_FrameReleasedExactly ==
    apc = "freed" => \A q \in PageIdx : page[q] = NoPages[q]

\* C7 witness: a deallocate has returned for an allocation that shrinks had
\* made smaller than the frame it was allocated with.
C7_Witness ==
    /\ apc = "freed" /\ frame0 > OuterSize(cur)
    /\ \A q \in PageIdx : page[q] = NoPages[q]

(***************************************************************************)
(* Release without a matching acquire                                      *)
(***************************************************************************)
\* a step in which thread t calls release on a guard whose word is 0: it
\* panics, or it returns with the word decremented
EntersReleaseUnmatched(t) ==
    /\ pc[t] = "idle" /\ mpc = "idle" /\ mpc' = "idle" /\ word = 0
    /\ \/ pc' = [pc EXCEPT ![t] = "abort"]
       \/ pc' = pc /\ word' = WrapDec(word)

\* C11 as claimed: a shared release on a guard whose state word is 0 panics
\* and calls neither lock() nor unlock().
C11_UnmatchedReleasePanics ==
    [][ \A t \in Thread : EntersReleaseUnmatched(t) =>
            (pc'[t] = "abort" /\ word' = word /\ prot' = prot) ]_vars

\* C11 amended: in a build with debug assertions a shared release on a
\* guard whose state word is 0 panics; in every build it calls neither
\* lock() nor unlock().
C11_UnmatchedReleasePanicsInDebug ==
    [][ \A t \in Thread : EntersReleaseUnmatched(t) =>
            /\ prot' = prot
            /\ debug => (pc'[t] = "abort" /\ word' = word) ]_vars

\* C11 witness: a debug build in which a release found the word 0 and
\* panicked, the word still 0.
C11_Witness ==
    debug /\ word = 0 /\ \E t \in Thread : pc[t] = "abort" /\ refs[t] = 0

C14_ZeroSizedAllocate ==
    [][ (AllocateProtect /\ cur = 0) =>
            /\ res' = "ok"
            /\ usable' = 0
            /\ ret' # 0 /\ ret' % PageSize = 0
            /\ page'[(ret' \div PageSize) - 1] = "na"
            /\ page'[ret' \div PageSize] = "na" ]_vars

(***************************************************************************)
(* The sizes of a guarded allocation: GuardedAlloc<N>::new (pages.rs) and  *)
(* Sensitive::allocate (alloc.rs), in usize arithmetic.  Overflow panics   *)
(* in a build with overflow checks (the dev profile, `debug`) and wraps    *)
(* in a build without.                                                     *)
(***************************************************************************)
\* largest number N of guard pages
MaxGuardPages == 2

\* width of usize in bits (scaled down)
SizeBits == 6

\* 2^SizeBits
SizeModulus == 2 ^ SizeBits

\* isize::MAX, the largest size a Layout can have
IsizeMax == (SizeModulus \div 2) - 1

\* the result does not fit in a usize
Overflows(x) == x < 0 \/ x >= SizeModulus

\* the usize a wrapping operation leaves
Wrap(x) == (x + SizeModulus) % SizeModulus

\* usize::next_multiple_of
NextMultipleOf(x, g) == IF x % g = 0 THEN x ELSE x + (g - (x % g))

\* GuardedAlloc::<N>::guard_size
GuardedGuardSize(N) == N * PageSize

\* size + 2 * Self::guard_size()
GuardedOuterSum(N, size) == size + 2 * GuardedGuardSize(N)

\* the allocator is not used, the platform is any
AllocUnused ==
    /\ plat \in Platforms
    /\ gran \in {f * PageSize : f \in Factors[plat]}
    /\ page = NoPages
    /\ mem = NoBytes
    /\ apc = "unused"
    /\ cur = 0
    /\ ret = 0
    /\ usable = 0
    /\ frame0 = 0
    /\ req = 0
    /\ snap = NoBytes
    /\ entry = "none"
    /\ res = "none"

SizesInit ==
    /\ spc = "start"
    /\ gpages = 0
    /\ gsize = 0
    /\ gouter = 0
    /\ gframe = 0
    /\ ginner = <<0, 0>>

\* GuardedAlloc::<N>::new(size, prot) is called
GuardedNew(N, size) ==
    /\ spc = "start"
    /\ gpages' = N
    /\ gsize' = size
    /\ spc' = "outer_size"
    /\ UNCHANGED <<notSizes, gouter, gframe, ginner>>

\* GuardedAlloc::outer_size: Allocation::align(size + 2 * guard_size)
GuardedOuterSize ==
    /\ spc = "outer_size"
    /\ LET sum == GuardedOuterSum(gpages, gsize)
           aligned == NextMultipleOf(Wrap(sum), gran)
       IN  IF debug /\ (Overflows(sum) \/ Overflows(aligned))
           THEN /\ spc' = "panic"
                /\ UNCHANGED gouter
           ELSE /\ gouter' = Wrap(aligned)
                /\ spc' = "allocation_new"
    /\ UNCHANGED <<notSizes, gpages, gsize, gframe, ginner>>

\* Allocation::new: mmap / VirtualAlloc of the aligned size; a length of 0
\* is refused, any other may be
AllocationNew(ok) ==
    /\ spc = "allocation_new"
    /\ IF ok /\ gouter # 0
       THEN /\ gframe' = Wrap(NextMultipleOf(gouter, gran))
            /\ spc' = "inner"
       ELSE /\ spc' = "err"
            /\ UNCHANGED gframe
    /\ UNCHANGED <<notSizes, gpages, gsize, gouter, ginner>>

\* Allocation::len
AllocationLen == gframe \div PageSize

\* self.0.len() - Self::GUARD_PAGES
InnerEnd == AllocationLen - gpages

\* Allocation::pages: range.start < self.len() && range.end <= self.len()
InRange(start, end) == start < AllocationLen /\ end <= AllocationLen

\* Allocation::pages: (range.end - range.start) * Pages::granularity()
RangeSize(start, end) == (end - start) * PageSize

\* GuardedAlloc::inner, and the protect of new when it is not empty
GuardedInner ==
    /\ spc = "inner"
    /\ LET end == Wrap(InnerEnd)
           size == Wrap(RangeSize(gpages, end))
       IN  IF \/ debug /\ (Overflows(InnerEnd) \/ Overflows(RangeSize(gpages, end)))
              \/ ~InRange(gpages, end)
           THEN /\ spc' = "panic"
                /\ UNCHANGED ginner
           ELSE IF GuardedGuardSize(gpages) + size > gframe
                THEN /\ spc' = "err"
                     /\ UNCHANGED ginner
                ELSE /\ ginner' = <<GuardedGuardSize(gpages), size>>
                     /\ spc' = "ok"
    /\ UNCHANGED <<notSizes, gpages, gsize, gouter, gframe>>

\* Sensitive::allocate: outer, inner, base and the slice returned, for the
\* size of a Layout
SensitiveSizes(size) ==
    /\ spc = "start"
    /\ size <= IsizeMax
    /\ gpages' = GUARD_PAGES
    /\ gsize' = size
    /\ gouter' = Wrap(OuterSize(size))
    /\ gframe' = Wrap(OuterSize(size))
    /\ ginner' = <<GuardSize, Wrap(InnerSize(size))>>
    /\ spc' = "ok"
    /\ UNCHANGED notSizes

InitSizes == GuardIdle /\ AllocUnused /\ SizesInit /\ MoveIdle /\ EqIdle /\ OnceIdle /\ StringIdle /\ ViewIdle /\ SeqIdle /\ PairIdle

NextSizes ==
    \/ \E N \in 0 .. MaxGuardPages, size \in 0 .. SizeModulus - 1 : GuardedNew(N, size)
    \/ GuardedOuterSize
    \/ \E ok \in BOOLEAN : AllocationNew(ok)
    \/ GuardedInner
    \/ \E size \in 0 .. SizeModulus - 1 : SensitiveSizes(size)

SpecSizes == InitSizes /\ [][NextSizes]_vars

\* C15: a guarded allocation that has been made for size s with N guard
\* pages has a frame of align_G(s + 2*N*P) bytes, its interior starts N*P
\* bytes after the frame base and is outer - 2*N*P >= s bytes long, and
\* that is the interior inner() / allocate report.
C15_GuardedSizes ==
    spc = "ok" =>
        /\ gouter = NextMultipleOf(gsize + 2 * gpages * PageSize, gran)
        /\ gframe = gouter
        /\ ginner[1] = gpages * PageSize
        /\ ginner[2] = gouter - 2 * gpages * PageSize
        /\ ginner[2] >= gsize

(***************************************************************************)
(* Containers built from an external mutable source: Box::new (boxed.rs),  *)
(* Vec::from (vec.rs), String::from (string.rs).  Storage is a sequence of *)
(* bytes; a text is a sequence of scalars, encoded in UTF-8.               *)
(***************************************************************************)
\* longest source, in bytes (Box, Vec) or scalars (String)
MaxLen == 3

\* byte values a source holds
ByteValues == {0, 1, 2}

\* the scalars of a text: U+0061, U+0041, U+00C4, U+0308, U+0323
Scalars == {"a", "A", "A_diaeresis", "diaeresis", "dot_below"}

\* canonical combining class of a scalar
CombiningClass(c) ==
    CASE c = "diaeresis" -> 230
      [] c = "dot_below" -> 220
      [] OTHER -> 0

\* canonical decomposition of a scalar
Decompose(c) == IF c = "A_diaeresis" THEN <<"A", "diaeresis">> ELSE <<c>>

\* UTF-8 encoding of a scalar (char::encode_utf8)
EncodeUtf8(c) ==
    CASE c = "a" -> <<97>>
      [] c = "A" -> <<65>>
      [] c = "A_diaeresis" -> <<195, 132>>
      [] c = "diaeresis" -> <<204, 136>>
      [] c = "dot_below" -> <<204, 163>>

RECURSIVE Utf8(_)
\* the bytes of a text
Utf8(t) == IF t = <<>> THEN <<>> ELSE EncodeUtf8(Head(t)) \o Utf8(Tail(t))

RECURSIVE Decomposed(_)
\* the canonical decompositions of the scalars of a text, in order
Decomposed(t) == IF t = <<>> THEN <<>> ELSE Decompose(Head(t)) \o Decomposed(Tail(t))

\* first index at which two combining marks are out of canonical order, or 0
Misordered(t) ==
    LET bad == {i \in 1 .. Len(t) - 1 :
                   CombiningClass(t[i + 1]) > 0
                   /\ CombiningClass(t[i]) > CombiningClass(t[i + 1])}
    IN  IF bad = {} THEN 0 ELSE CHOOSE i \in bad : \A j \in bad : i <= j

RECURSIVE Reorder(_)
\* canonical ordering: marks are sorted by combining class, stably
Reorder(t) ==
    IF Misordered(t) = 0 THEN t
    ELSE LET i == Misordered(t)
         IN  Reorder([t EXCEPT ![i] = t[i + 1], ![i + 1] = t[i]])

\* str::nfd: canonical decomposition, canonically ordered
Nfd(t) == Reorder(Decomposed(t))

\* the sequences over S of length at most n
SeqsUpTo(S, n) == UNION {[1 .. k -> S] : k \in 0 .. n}

Kinds == {"Box::new", "Vec::from(&mut [T])", "Vec::from(Vec<T>)", "String::from(String)"}

MoveInit ==
    /\ cpc = "start"
    /\ kind \in Kinds
    /\ text \in IF kind = "String::from(String)" THEN SeqsUpTo(Scalars, MaxLen) ELSE {<<>>}
    /\ source \in IF kind = "String::from(String)" THEN {Utf8(text)} ELSE SeqsUpTo(ByteValues, MaxLen)
    /\ original = source
    /\ held = <<>>

\* the bytes the constructor stores in the container
Stored == IF kind = "String::from(String)" THEN Utf8(Nfd(text)) ELSE source

\* the container is allocated and filled: Box::new_in(source, Sensitive);
\* copy_from_nonoverlapping and set_len; the pushes of source.nfd()
MoveCopy ==
    /\ cpc = "start"
    /\ held' = Stored
    /\ cpc' = "copied"
    /\ UNCHANGED <<notMove, kind, text, original, source>>

\* the bytes zero(ptr, count) leaves in storage s
ZeroPrefix(s, count) == [i \in 1 .. Len(s) |-> IF i <= count THEN 0 ELSE s[i]]

\* the first bytes of the source are all that is zeroed
SourceCount_First == IF Len(source) = 0 THEN 0 ELSE 1

\* the count zero is called with, in bytes: zero(ptr, 1) for the one T of
\* Box::new, zero(source.as_mut_ptr(), len) for the len elements or bytes
SourceCount == Len(source)

\* the source is zeroed and the container returned
MoveZero ==
    /\ cpc = "copied"
    /\ source' = ZeroPrefix(source, SourceCount)
    /\ cpc' = "done"
    /\ UNCHANGED <<notMove, kind, text, original, held>>

InitMove == GuardIdle /\ AllocIdle /\ SizesIdle /\ MoveInit /\ EqIdle /\ OnceIdle /\ StringIdle /\ ViewIdle /\ SeqIdle /\ PairIdle

NextMove == MoveCopy \/ MoveZero

SpecMove == InitMove /\ [][NextMove]_vars

\* C16 as claimed: when the constructor has returned, every byte of the
\* source's storage that held the data is zero and the container holds the
\* original data.
C16_SourceZeroedDataKept ==
    cpc = "done" =>
        /\ \A i \in 1 .. Len(original) : source[i] = 0
        /\ held = original

\* C16 amended: when the constructor has returned, every byte of the
\* source's storage that held the data is zero; the container holds the
\* original data, and for String::from the bytes of the canonical
\* decomposition of the original text.
C16_SourceZeroedDataNormalized ==
    cpc = "done" =>
        /\ Len(source) = Len(original)
        /\ \A i \in 1 .. Len(original) : source[i] = 0
        /\ kind # "String::from(String)" => held = original
        /\ kind = "String::from(String)" =>
              /\ held = Utf8(Nfd(text))
              /\ (\A i \in 1 .. Len(text) : Decompose(text[i]) = <<text[i]>>)
                     => Len(held) = Len(original)

\* C16 witness: String::from has returned for a text with a precomposed
\* scalar: the source is zeroed, the container holds the longer decomposed
\* form.
C16_Witness ==
    /\ cpc = "done" /\ kind = "String::from(String)"
    /\ Len(original) > 0 /\ \A i \in 1 .. Len(original) : source[i] = 0
    /\ held # original /\ Len(held) > Len(original)

(***************************************************************************)
(* Equality of a borrowed guarded sequence and a slice: Vec::eq_slice      *)
(* (vec.rs) and String::eq_slice (string.rs).  The buffer has `capacity`   *)
(* elements of which the first `len` are the sequence; what the rest hold  *)
(* is arbitrary.  CMP_MIN is 32 in the source and scaled here.             *)
(***************************************************************************)
\* largest capacity
MaxCapacity == 2

\* longest slice compared with: longer than the largest capacity
MaxOther == 3

CMP_MIN == 2

\* values of an element, as usize
Elems == 0 .. 2

Min(x, y) == IF x <= y THEN x ELSE y

Max(x, y) == IF x >= y THEN x ELSE y

RECURSIVE BitOr(_, _)
\* x | y
BitOr(x, y) ==
    IF x = 0 THEN y
    ELSE IF y = 0 THEN x
    ELSE 2 * BitOr(x \div 2, y \div 2) + Max(x % 2, y % 2)

RECURSIVE BitXor(_, _)
\* x ^ y
BitXor(x, y) ==
    IF x = 0 THEN y
    ELSE IF y = 0 THEN x
    ELSE 2 * BitXor(x \div 2, y \div 2) + ((x + y) % 2)

EqInit ==
    /\ epc = "start"
    /\ capacity \in 0 .. MaxCapacity
    /\ buffer \in [1 .. capacity -> Elems]
    /\ len \in 0 .. capacity
    /\ other \in SeqsUpTo(Elems, MaxOther)
    /\ fold = 0
    /\ reads = <<>>
    /\ eq = "none"

\* a.capacity() >= Self::CMP_MIN
EqAsserts == capacity >= CMP_MIN

\* eq_slice is entered: a sequence without capacity equals the empty slice
\* only; with debug assertions a capacity below CMP_MIN panics
EqEnter ==
    /\ epc = "start"
    /\ IF capacity = 0
       THEN /\ epc' = "done"
            /\ eq' = IF Len(other) = 0 THEN "true" ELSE "false"
       ELSE IF debug /\ ~EqAsserts
       THEN /\ epc' = "done"
            /\ eq' = "panic"
       ELSE /\ epc' = "fold"
            /\ eq' = eq
    /\ UNCHANGED <<notEq, capacity, buffer, len, other, fold, reads>>

\* the elements b.iter().take(a.capacity()) yields
Taken == Min(Len(other), capacity)

\* the element compared next stops the fold at the first difference
EqFoldMore_Exit == Len(reads) < Taken /\ fold = 0

\* the fold has an element left
EqFoldMore == Len(reads) < Taken

\* one step of the fold: element i of the buffer is read and its difference
\* from element i of the slice is accumulated
EqFold ==
    /\ epc = "fold"
    /\ EqFoldMore
    /\ LET i == Len(reads)
       IN  /\ reads' = Append(reads, i)
           /\ fold' = BitOr(fold, BitXor(buffer[i + 1], other[i + 1]))
    /\ UNCHANGED <<notEq, epc, capacity, buffer, len, other, eq>>

\* the difference of the lengths is accumulated and the result compared with 0
EqFinish ==
    /\ epc = "fold"
    /\ ~EqFoldMore
    /\ eq' = IF BitOr(fold, Max(len, Len(other)) - Min(len, Len(other))) = 0
             THEN "true" ELSE "false"
    /\ epc' = "done"
    /\ UNCHANGED <<notEq, capacity, buffer, len, other, fold, reads>>

InitEq == GuardIdle /\ AllocIdle /\ SizesIdle /\ MoveIdle /\ EqInit /\ OnceIdle /\ StringIdle /\ ViewIdle /\ SeqIdle /\ PairIdle

NextEq == EqEnter \/ EqFold \/ EqFinish

SpecEq == InitEq /\ [][NextEq]_vars

\* the sequence and the slice have the same length and the same elements
SameElements == len = Len(other) /\ \A i \in 1 .. len : buffer[i] = other[i]

\* C17: the comparison returns true if and only if the sequence and the
\* slice have the same length and equal elements, whatever the slice and
\* the capacity.
C17_EqualIffSameElements ==
    epc = "done" => eq = (IF SameElements THEN "true" ELSE "false")

\* C18: the indices of the elements the comparison has read when it returns
\* are 0, 1, ... up to the smaller of other.len() and the capacity, whatever
\* the contents: a function of the capacity and the lengths only.
C18_ReadsIndependentOfContents ==
    (epc = "done" /\ eq # "panic") =>
        reads = [i \in 1 .. (IF capacity = 0 THEN 0 ELSE Taken) |-> i - 1]

\* C18 witness: the comparison has returned false for two sequences of equal
\* length that differ in their first element, after reading every element.
C18_Witness ==
    /\ epc = "done" /\ eq = "false"
    /\ len = Len(other) /\ len = capacity /\ capacity >= CMP_MIN
    /\ buffer[1] # other[1] /\ Len(reads) = len

(***************************************************************************)
(* Values without pages: a sequence of capacity 0 (vec.rs 18-26), a boxed  *)
(* value of size 0 (boxed.rs 27-33).  lock, unlock and unlock_mut return   *)
(* Ok(()) without a protection call (pages.rs 523-547).                    *)
(***************************************************************************)
\* no acquire or release, shared or exclusive, is under way
Settled ==
    /\ \A t \in Thread : pc[t] \in {"idle", "held", "done"}
    /\ mpc \in {"idle", "held_mut"}

\* the state word between transitions, whatever the pages: the exclusive
\* sentinel under an exclusive handle (stored only with debug assertions),
\* ACC and the number of handles under shared handles, 0 otherwise
SettledWord ==
    IF mpc = "held_mut" THEN (IF debug THEN ACC + MUT ELSE 0)
    ELSE IF Handles > 0 THEN ACC + Handles
    ELSE 0

\* C19: for a value whose pages view reports no pages, a guard transition
\* leaves the state word as it does for a value with pages, issues no
\* protection call (the view has no protection afterwards either, unless a
\* push allocated a buffer) and does not fail.
C19_PagelessTransitions ==
    [][ prot = "none" =>
            /\ prot' = "none" \/ Push
            /\ \A t \in Thread : pc'[t] \notin {"abort", "overflow"}
            /\ mpc' # "abort"
            /\ Settled' => word' = SettledWord' ]_vars

\* C19 witness: a value without pages after a shared release by one thread,
\* a shared handle held by another.
C19_Witness ==
    /\ prot = "none" /\ mpc = "idle"
    /\ \E t, u \in Thread : pc[t] = "held" /\ pc[u] = "done"
    /\ word = ACC + 1

(***************************************************************************)
(* The page size is queried once: init() runs its closure under            *)
(* INIT.call_once, Pages::granularity reads PAGE_SIZE after init()         *)
(* (pages.rs 67-103).  PAGE_SIZE is <<>> until it is written; a read of it *)
(* before that is a read of an uninitialised value and yields anything.    *)
(***************************************************************************)
\* calls of Pages::granularity a thread makes
MaxCalls == 2

\* page sizes the OS may report
OsPageSizes == {4, 8}

\* what a read of the uninitialised PAGE_SIZE may yield
Garbage == {0} \cup OsPageSizes

OnceInit ==
    /\ INIT = "incomplete"
    /\ PAGE_SIZE = <<>>
    /\ os \in OsPageSizes
    /\ queries = 0
    /\ pgsz = 0
    /\ qpc = [t \in Thread |-> "idle"]
    /\ calls = [t \in Thread |-> MaxCalls]
    /\ got = [t \in Thread |-> 0]

\* Pages::granularity is called: init() enters INIT.call_once
Granularity(t) ==
    /\ qpc[t] = "idle" /\ calls[t] > 0
    /\ qpc' = [qpc EXCEPT ![t] = "call_once"]
    /\ calls' = [calls EXCEPT ![t] = @ - 1]
    /\ UNCHANGED <<notOnce, INIT, PAGE_SIZE, os, queries, pgsz, got>>

\* call_once returns at once when an initialisation has begun
Completed_Begun == INIT # "incomplete"

\* call_once returns at once when the initialisation is complete
Completed == INIT = "complete"

\* call_once: the first caller runs the closure, the others wait until the
\* Once is complete
CallOnce(t) ==
    /\ qpc[t] = "call_once"
    /\ \/ /\ INIT = "incomplete"
          /\ INIT' = "running"
          /\ qpc' = [qpc EXCEPT ![t] = "sysconf"]
       \/ /\ Completed
          /\ INIT' = INIT
          /\ qpc' = [qpc EXCEPT ![t] = "read"]
    /\ UNCHANGED <<notOnce, PAGE_SIZE, os, queries, pgsz, calls, got>>

\* the closure queries the OS: sysconf(_SC_PAGESIZE), GetSystemInfo
Sysconf(t) ==
    /\ qpc[t] = "sysconf"
    /\ pgsz' = os
    /\ queries' = queries + 1
    /\ qpc' = [qpc EXCEPT ![t] = "write"]
    /\ UNCHANGED <<notOnce, INIT, PAGE_SIZE, os, calls, got>>

\* the closure stores the page size
Write_PAGE_SIZE(t) ==
    /\ qpc[t] = "write"
    /\ PAGE_SIZE' = <<pgsz>>
    /\ qpc' = [qpc EXCEPT ![t] = "complete"]
    /\ UNCHANGED <<notOnce, INIT, os, queries, pgsz, calls, got>>

\* the closure has returned: the Once is complete and the waiters are woken
Complete(t) ==
    /\ qpc[t] = "complete"
    /\ INIT' = "complete"
    /\ qpc' = [qpc EXCEPT ![t] = "read"]
    /\ UNCHANGED <<notOnce, PAGE_SIZE, os, queries, pgsz, calls, got>>

\* PAGE_SIZE.assume_init(): the value returned
AssumeInit(t) ==
    /\ qpc[t] = "read"
    /\ \E v \in (IF PAGE_SIZE = <<>> THEN Garbage ELSE {PAGE_SIZE[1]}) :
           got' = [got EXCEPT ![t] = v]
    /\ qpc' = [qpc EXCEPT ![t] = "returned"]
    /\ UNCHANGED <<notOnce, INIT, PAGE_SIZE, os, queries, pgsz, calls>>

\* the caller goes on and may call again
Returned(t) ==
    /\ qpc[t] = "returned"
    /\ qpc' = [qpc EXCEPT ![t] = "idle"]
    /\ UNCHANGED <<notOnce, INIT, PAGE_SIZE, os, queries, pgsz, calls, got>>

InitOnce == GuardIdle /\ AllocIdle /\ SizesIdle /\ MoveIdle /\ EqIdle /\ OnceInit /\ StringIdle /\ ViewIdle /\ SeqIdle /\ PairIdle

NextOnce ==
    \E t \in Thread :
        \/ Granularity(t)
        \/ CallOnce(t)
        \/ Sysconf(t)
        \/ Write_PAGE_SIZE(t)
        \/ Complete(t)
        \/ AssumeInit(t)
        \/ Returned(t)

SpecOnce == InitOnce /\ [][NextOnce]_vars

\* C20: the OS is queried at most once, and exactly once when a call has
\* got past init(); no call gets past init() before the page size is
\* stored; every call returns the value the OS reported.
C20_QueriedOnce ==
    /\ queries <= 1
    /\ \A t \in Thread :
           /\ qpc[t] \in {"read", "returned"} => (queries = 1 /\ PAGE_SIZE = <<os>>)
           /\ qpc[t] = "returned" => got[t] = os
           /\ \A u \in Thread :
                  (calls[t] < MaxCalls /\ calls[u] < MaxCalls
                      /\ qpc[t] \in {"returned", "idle"} /\ qpc[u] \in {"returned", "idle"})
                  => got[t] = got[u]

\* C20 witness: three threads made their first call before the Once was
\* complete; one ran the closure, and all have returned the same value.
C20_Witness ==
    /\ queries = 1 /\ INIT = "complete"
    /\ \A t \in Thread : qpc[t] = "returned" /\ calls[t] = MaxCalls - 1 /\ got[t] = os

(***************************************************************************)
(* The normalized string (string.rs): construction from a text, push,      *)
(* push_str and pop under an exclusive handle.  The buffer is the whole    *)
(* capacity: fresh pages read as zero, a grown buffer holds the old one    *)
(* followed by zeros.                                                      *)
(***************************************************************************)
\* calls made on a string
MaxOps == 3

\* the texts a string is built from or extended by: every text of at most
\* one scalar, and texts with marks out of order, with a precomposed scalar
\* before a mark, and with a mark after a letter
Texts ==
    SeqsUpTo(Scalars, 1)
        \cup {<<"diaeresis", "dot_below">>, <<"A_diaeresis", "dot_below">>, <<"a", "diaeresis">>}

\* n zero bytes
Zeros(n) == [i \in 1 .. n |-> 0]

\* Vec::reserve(additional) on a buffer of which len bytes are used: the
\* capacity grows to the larger of twice itself, len + additional and 8
Reserve(buf, used, additional) ==
    IF Len(buf) - used >= additional THEN buf
    ELSE buf \o Zeros(Max(Max(2 * Len(buf), used + additional), 8) - Len(buf))

\* encode_utf8 into the spare capacity
Encode(buf, used, c) ==
    [i \in 1 .. Len(buf) |->
        IF i > used /\ i <= used + Len(EncodeUtf8(c)) THEN EncodeUtf8(c)[i - used] ELSE buf[i]]

\* reserve, encode_utf8 and set_len for one decomposed scalar: the buffer
\* and the length afterwards
Put(st, c) ==
    LET grown == Reserve(st[1], st[2], Len(EncodeUtf8(c)))
    IN  <<Encode(grown, st[2], c), st[2] + Len(EncodeUtf8(c))>>

RECURSIVE PutAll(_, _)
\* for decomp in iter: Put
PutAll(st, t) == IF t = <<>> THEN st ELSE PutAll(Put(st, Head(t)), Tail(t))

\* the lower bound of the size hint of the decompositions of a text
SizeHint(t) == (Len(Utf8(t)) + 3) \div 4

\* a byte that continues a scalar
Continuation(b) == b >= 128 /\ b < 192

\* the scalar encoded by the bytes s
Scalar(s) == CHOOSE c \in Scalars : EncodeUtf8(c) = s

RECURSIVE LastStart(_, _)
\* chars().rev(): the index at which the last scalar of the first n bytes starts
LastStart(buf, n) == IF Continuation(buf[n]) THEN LastStart(buf, n - 1) ELSE n

\* the bytes of the string
Content == SubSeq(tbuf, 1, tlen)

StringInit ==
    /\ tpc = "new"
    /\ tbuf = <<>>
    /\ tlen = 0
    /\ tlast = "none"
    /\ tret = "none"
    /\ tsnap = <<>>
    /\ tops = 0

\* String::new
StringNew ==
    /\ tpc = "new"
    /\ tpc' = "live"
    /\ tlast' = "new"
    /\ UNCHANGED <<notString, tbuf, tlen, tret, tsnap, tops>>

\* String::from(&str): with_capacity of the size hint, then the
\* decompositions of source.nfd() one by one
StringFrom(t) ==
    /\ tpc = "new"
    /\ LET st == PutAll(<<Zeros(NextMultipleOf(SizeHint(t), PageSize)), 0>>, Nfd(t))
       IN  tbuf' = st[1] /\ tlen' = st[2]
    /\ tpc' = "live"
    /\ tlast' = "from"
    /\ UNCHANGED <<notString, tret, tsnap, tops>>

\* a push that appends nothing
Pushed_None(c) == <<>>

\* the scalars push(ch) appends: decompose_canonical(ch, ..)
Pushed(c) == Decompose(c)

\* RefMut::push
StringPush(c) ==
    /\ tpc = "live" /\ tops < MaxOps
    /\ LET st == PutAll(<<tbuf, tlen>>, Pushed(c))
       IN  tbuf' = st[1] /\ tlen' = st[2]
    /\ tlast' = IF tlast = "pop" /\ tret = c THEN "pop_push" ELSE "push"
    /\ tret' = IF tlast = "pop" /\ tret = c THEN tret ELSE "none"
    /\ tsnap' = IF tlast = "pop" /\ tret = c THEN tsnap ELSE <<>>
    /\ tops' = tops + 1
    /\ UNCHANGED <<notString, tpc>>

\* RefMut::push_str: reserve of the size hint, then the decompositions of
\* string.nfd() one by one
StringPushStr(t) ==
    /\ tpc = "live" /\ tops < MaxOps
    /\ LET st == PutAll(<<Reserve(tbuf, tlen, SizeHint(t)), tlen>>, Nfd(t))
       IN  tbuf' = st[1] /\ tlen' = st[2]
    /\ tlast' = "push_str"
    /\ tret' = "none"
    /\ tsnap' = <<>>
    /\ tops' = tops + 1
    /\ UNCHANGED <<notString, tpc>>

\* a pop that leaves the bytes of the scalar behind
PopZeroed_Keep(buf, from, count) == buf

\* zero(ptr.add(len), ch.len_utf8())
PopZeroed(buf, from, count) ==
    [i \in 1 .. Len(buf) |-> IF i > from /\ i <= from + count THEN 0 ELSE buf[i]]

\* RefMut::pop: None for the empty string; else the last scalar is taken
\* off the length and its bytes are zeroed
StringPop ==
    /\ tpc = "live" /\ tops < MaxOps
    /\ IF tlen = 0
       THEN /\ tret' = "None"
            /\ UNCHANGED <<tbuf, tlen>>
       ELSE LET start == LastStart(tbuf, tlen)
                ch == Scalar(SubSeq(tbuf, start, tlen))
            IN  /\ tlen' = tlen - Len(EncodeUtf8(ch))
                /\ tbuf' = PopZeroed(tbuf, tlen', Len(EncodeUtf8(ch)))
                /\ tret' = ch
    /\ tlast' = "pop"
    /\ tsnap' = Content
    /\ tops' = tops + 1
    /\ UNCHANGED <<notString, tpc>>

InitString == GuardIdle /\ AllocIdle /\ SizesIdle /\ MoveIdle /\ EqIdle /\ OnceIdle /\ StringInit /\ ViewIdle /\ SeqIdle /\ PairIdle

NextString ==
    \/ StringNew
    \/ \E t \in Texts : StringFrom(t)
    \/ \E c \in Scalars : StringPush(c)
    \/ \E t \in Texts : StringPushStr(t)
    \/ StringPop

SpecString == InitString /\ [][NextString]_vars

RECURSIVE Decode(_)
\* the scalars of a sequence of bytes, read from the front
Decode(s) ==
    IF s = <<>> THEN <<>>
    ELSE LET n == IF Head(s) < 128 THEN 1 ELSE 2
         IN  <<Scalar(SubSeq(s, 1, n))>> \o Decode(SubSeq(s, n + 1, Len(s)))

\* C21: pop on a non-empty string takes exactly the bytes of the last
\* scalar off the string, returns that scalar and leaves every byte between
\* the new and the old length zero (and every other byte as it was); pop on
\* the empty string returns None and changes nothing.
C21_PopWipesLastScalar ==
    [][ StringPop =>
          IF tlen = 0
          THEN tret' = "None" /\ tbuf' = tbuf /\ tlen' = tlen
          ELSE LET scalars == Decode(Content)
                   last == scalars[Len(scalars)]
               IN  /\ tret' = last
                   /\ tlen' = tlen - Len(EncodeUtf8(last))
                   /\ Decode(SubSeq(tbuf', 1, tlen')) = SubSeq(scalars, 1, Len(scalars) - 1)
                   /\ Len(tbuf') = Len(tbuf)
                   /\ \A i \in 1 .. Len(tbuf) :
                          tbuf'[i] = IF i > tlen' /\ i <= tlen THEN 0 ELSE tbuf[i] ]_vars

\* C21 witness: a pop has taken a two-byte scalar off a string that keeps
\* other scalars, and the two bytes are zero.
C21_Witness ==
    /\ tlast = "pop" /\ tret = "diaeresis" /\ tlen > 0
    /\ Len(tsnap) = tlen + 2
    /\ tbuf[tlen + 1] = 0 /\ tbuf[tlen + 2] = 0

Unlockers == {t \in Thread : pc[t] \in {"unlock", "setacc"}}

\* C24: of the threads that race into a shared acquire, only the one whose
\* fetch_add found the state word 0 calls unlock(), and it is the only one
\* doing so at a time; every other one goes on to hold its handle only from
\* a state word it loaded with ACC set, and changes no protection itself.
C24_OneUnlocker ==
    [][ /\ Cardinality(Unlockers') <= 1
        /\ \A t \in Thread :
              /\ (pc[t] = "idle" /\ pc'[t] = "unlock") => word = 0
              /\ (pc[t] = "idle" /\ pc'[t] = "spin") => word # 0
              /\ (pc[t] = "unlock" /\ pc'[t] = "setacc") =>
                     (refs[t] = 0 /\ Unlockers = {t})
              /\ (pc[t] = "spin" /\ pc'[t] = "held") =>
                     (HasAcc(refs[t]) /\ prot' = prot)
              /\ pc[t] = "spin" => pc'[t] \in {"spin", "held"} ]_vars

\* C24 witness: three threads raced on an idle guard with pages; all hold
\* a handle, and the pages are read-only.
C24_Witness ==
    /\ \A t \in Thread : pc[t] = "held"
    /\ word = ACC + Threads /\ prot = "ro" /\ stored = 0

(***************************************************************************)
(* Termination of the shared acquire and release (guard.rs 43-48, 53-87).  *)
(* The scheduler lets every thread that is inside an acquire or a release  *)
(* take its next step: the spin loop yields, the compare-update loop       *)
(* retries.                                                                *)
(***************************************************************************)
\* the steps of thread t inside an acquire or a release
Progress(t) ==
    \/ AcquireUnlock(t) \/ AcquireFetchOr(t) \/ AcquireSpin(t)
    \/ ReleaseLoad(t) \/ ReleaseClosure(t) \/ ReleaseCas(t)

SpecLive == Init /\ [][Next]_vars /\ \A t \in Thread : WF_vars(Progress(t))

\* C25: under weak fairness of every thread, a thread inside a shared
\* acquire comes to hold its handle and a thread inside a shared release
\* comes to have returned.
C25_AcquireReleaseReturn ==
    \A t \in Thread :
        /\ pc[t] \in {"unlock", "setacc", "spin"} ~> pc[t] = "held"
        /\ pc[t] \in {"load", "closure", "cas"} ~> pc[t] = "idle"

\* C25 witness: an acquirer spins for ACC while the last releaser is inside
\* its compare-update loop and has to retry.
C25_Witness ==
    \E t, u \in Thread :
        /\ pc[t] = "spin" /\ ~HasAcc(refs[t])
        /\ pc[u] = "cas" /\ refs[u] # word

(***************************************************************************)
(* The last shared release racing with new shared acquires                 *)
(* (guard.rs 53-87, refs.rs 35-68)                                         *)
(***************************************************************************)
\* thread t ends its release in this step: its second compare-update stores
ReleaseEnds(t) == pc[t] = "cas" /\ pc'[t] = "idle"

\* C26: the second compare-update of the last release ends in one of two
\* ways: the state word is 0 and the pages are no-access (a newcomer then
\* finds 0 and unlocks as the first acquirer, C24), or the word has ACC set
\* and counts the newcomers and the pages are read-only; and whenever no
\* acquire or release is in progress REF is the number of live shared
\* handles.
C26_LastReleaseRace ==
    [][ /\ \A t \in Thread : ReleaseEnds(t) =>
              \/ word' = 0 /\ word = 1 /\ prot' \in {"na", "none"}
              \/ /\ HasAcc(word') /\ REF(word') = REF(word) - 1 /\ REF(word') >= 1
                 /\ REF(word') = Cardinality({u \in Thread : pc[u] = "spin"})
                 /\ prot' \in {"ro", "none"}
        /\ (Settled' /\ mpc' = "idle") => REF(word') = Handles' ]_vars

\* C26 witness: a newcomer spins, counted in the state word, while the last
\* releaser has re-unlocked the pages and is about to publish ACC.
C26_Witness ==
    \E t, u \in Thread :
        /\ pc[t] = "spin" /\ pc[u] = "cas"
        /\ refs[u] = word /\ word = 2 /\ prot = "ro"

\* C27: a release that has called lock() (its second closure ran on the
\* value 1 and the pages are no-access) stores 0 when it goes on; it does
\* not end by handing access to a reacquirer.
C27_LockOnlyWhenLast ==
    [][ \A t \in Thread :
            (pc[t] = "cas" /\ refs[t] = 1 /\ prot = "na" /\ pc'[t] # "cas")
                => (word' = 0 /\ pc'[t] = "idle") ]_vars

(***************************************************************************)
(* The state word against the protection in every state, the states       *)
(* inside an operation included                                            *)
(***************************************************************************)
\* C28: whenever the ACC flag of the state word is set, the pages are
\* read-only or read-write.
C28_AccMeansAccessible ==
    (HasAcc(word) /\ prot # "none") => prot \in {"ro", "rw"}

\* C29: whenever the state word is 0, the pages are no-access.
C29_ZeroMeansLocked ==
    (word = 0 /\ prot # "none") => prot = "na"

(***************************************************************************)
(* The order of the steps of Sensitive::shrink (alloc.rs 91-108)           *)
(***************************************************************************)
\* C30: when shrink uncommits the old tail, the page that becomes the new
\* trailing guard is already no-access.
C30_GuardBeforeUncommit ==
    [][ ShrinkUncommit => page[ShrinkTail \div PageSize] = "na" ]_vars

(***************************************************************************)
(* Pages given up by a shrink.  The interior is the slice the allocator    *)
(* returned last: `usable` bytes at `ret`.                                  *)
(***************************************************************************)
\* the pages a running shrink gives up: the old interior from the end of
\* the new one, and the old trailing guard page
GivenUp == Bytes(ret + ShrinkInnerNew(req), (usable - ShrinkInnerNew(req)) + GuardSize)

\* C31: when shrink reduces the interior by at least one whole page, every
\* byte of the pages given up (the old interior from the end of the new one,
\* and the old trailing guard page) is zero when the first of these pages
\* is uncommitted, and when shrink returns, the pages of the old frame that
\* are no longer mapped are exactly those beyond the new trailing guard page.
C31_ZeroedBeforeUncommit ==
    [][ /\ (/\ apc \in {"shrink_protect", "shrink_zero", "shrink_uncommit", "shrink_guard"}
            /\ \E q \in PageIdx : Committed(page[q]) /\ ~Committed(page'[q]))
            => \A b \in GivenUp : mem[b] = 0
        /\ (ShrinkGuard /\ apc' = "live")
            => \A q \in PagesOf(ret - GuardSize, usable + 2 * GuardSize) :
                    ~Committed(page'[q])
                        <=> q \in PagesOf(ret + usable' + GuardSize, usable - usable') ]_vars

\* C37: when deallocate releases the frame, every byte of the interior up
\* to the usable length the allocator returned is zero, the bytes the
\* caller wrote between layout.size and the usable length included.
C37_UsableZeroedAtRelease ==
    [][ DeallocateRelease => \A b \in Bytes(ret, usable) : mem[b] = 0 ]_vars

\* C38: when shrink(ptr, old, new) has returned, every byte at the interior
\* offsets [new.size, old.size) is zero or no longer mapped, also when
\* old.size and new.size round up to the same number of pages.
C38_ShrunkBytesZeroedOrUnmapped ==
    [][ (apc \in {"live", "shrink_guard"} /\ apc' = "live" /\ cur' < cur)
            => \A b \in Bytes(ret + cur', cur - cur') :
                    mem'[b] = 0 \/ ~Committed(page'[b \div PageSize]) ]_vars

(***************************************************************************)
(* The shared acquire that overflows                                       *)
(***************************************************************************)
\* C35: a shared acquire that panics because REF has reached MAX leaves the
\* state word as it was before the call.
C35_OverflowLeavesWord ==
    [][ \A t \in Thread :
            (EntersAcquire(t) /\ pc'[t] = "overflow") => word' = word ]_vars

(***************************************************************************)
(* A bare Allocation and the views of its pages (pages.rs): Allocation::new, *)
(* shrink, pages and Drop, Pages::pages on the Pages of the whole          *)
(* allocation.  The allocation is `usable` bytes at `ret` in the address   *)
(* space of the allocator's variables.  A view borrows the allocation:     *)
(* shrink and drop, which consume it, wait until the view is gone.         *)
(***************************************************************************)
MaxRange == 5

\* the sizes shrink is called with
ShrinkSizes == 0 .. Align(MaxSize, MaxFactor * PageSize)

ViewInit ==
    /\ vpc = "idle"
    /\ range = <<0, 0>>
    /\ aview = <<>>
    /\ pview = <<>>

\* Allocation::new(size, prot): mmap / VirtualAlloc of Allocation::align(size)
NewAllocation(size, p) ==
    /\ apc = "start"
    /\ page' = OsAllocate(page, Addr, AllocAlign(size), p)
    /\ ret' = Addr
    /\ usable' = AllocAlign(size)
    /\ apc' = "live"
    /\ res' = "ok"
    /\ UNCHANGED <<notView, pvars, plat, gran, mem, cur, frame0, req, snap, entry>>

\* assert!(size < self.0.len())
ShrinkAsserts(size, length) == size < length

\* Allocation::from_slice: debug_assert_eq!(Self::align(slice.len()), slice.len())
FromSliceAsserts(size) == AllocAlign(size) = size

\* Drop for Allocation: munmap(ptr, len), which fails for a length of 0, or
\* VirtualFree(ptr, 0, MEM_RELEASE)
Dropped(pg) ==
    IF plat = "unix" /\ usable = 0 THEN pg ELSE OsRelease(pg, ret, usable)

\* let size = Pages::align(size)
ShrinkSize(size) == PageAlign(size)

\* Allocation::shrink(size): the assertion (its panic drops self), munmap /
\* VirtualFree(MEM_DECOMMIT) of the tail when there is one, and from_ptr
\* with its debug assertions (self was consumed by into_ptr before)
AllocationShrink(s) ==
    /\ apc = "live" /\ vpc = "idle"
    /\ req' = s
    /\ snap' = mem
    /\ IF ~ShrinkAsserts(s, usable)
       THEN /\ page' = Dropped(page)
            /\ apc' = "panic"
            /\ res' = "panic"
            /\ UNCHANGED <<ret, usable>>
       ELSE IF usable - ShrinkSize(s) > 0
            THEN /\ page' = OsUncommit(page, ret + ShrinkSize(s), usable - ShrinkSize(s))
                 /\ IF debug /\ ~FromSliceAsserts(ShrinkSize(s))
                    THEN /\ apc' = "panic"
                         /\ res' = "panic"
                         /\ UNCHANGED <<ret, usable>>
                    ELSE /\ ret' = ret
                         /\ usable' = ShrinkSize(s)
                         /\ res' = "ok"
                         /\ UNCHANGED apc
            ELSE /\ res' = "ok"
                 /\ UNCHANGED <<page, apc, ret, usable>>
    /\ UNCHANGED <<notView, pvars, plat, gran, mem, cur, frame0, entry>>

\* the allocation goes out of scope
AllocationDrop ==
    /\ apc = "live" /\ vpc = "idle"
    /\ page' = Dropped(page)
    /\ apc' = IF plat = "unix" /\ usable = 0 THEN "panic" ELSE "freed"
    /\ res' = IF plat = "unix" /\ usable = 0 THEN "panic" ELSE "ok"
    /\ UNCHANGED <<notView, pvars, plat, gran, mem, cur, ret, usable, frame0, req, snap, entry>>

\* Pages::len, Allocation::len: self.size() / Pages::granularity()
PagesLen(size) == size \div PageSize

\* range.start < self.len() && range.end <= self.len()
Within(length, start, end) == start < length /\ end <= length

\* Pages::pages: (range.end - range.start - 1) * Self::granularity()
PagesRangeSize(start, end) == (end - start - 1) * PageSize

\* the Option a pages(range) returns on `size` bytes of pages, `bytes`
\* being the length it computes; arithmetic that overflows panics in a
\* build with overflow checks and wraps in one without
View(size, start, end, bytes) ==
    IF ~Within(PagesLen(size), start, end) THEN <<"None">>
    ELSE IF ~Overflows(bytes) THEN <<"Some", start * PageSize, bytes>>
    ELSE IF debug THEN <<"panic">>
    ELSE <<"Some", start * PageSize, Wrap(bytes)>>

\* alloc.pages(start .. end), and pages.pages(start .. end) on the Pages
\* that cover the whole allocation
ViewPages(start, end) ==
    /\ apc = "live" /\ vpc = "idle"
    /\ vpc' = "viewed"
    /\ range' = <<start, end>>
    /\ aview' = View(usable, start, end, RangeSize(start, end))
    /\ pview' = View(usable, start, end, PagesRangeSize(start, end))
    /\ UNCHANGED <<notView, avars>>

\* the views go out of scope
ViewDrop ==
    /\ vpc = "viewed"
    /\ vpc' = "idle"
    /\ range' = <<0, 0>>
    /\ aview' = <<>>
    /\ pview' = <<>>
    /\ UNCHANGED <<notView, avars>>

InitPages == GuardIdle /\ AllocInit /\ SizesIdle /\ MoveIdle /\ EqIdle /\ OnceIdle /\ StringIdle /\ ViewInit /\ SeqIdle /\ PairIdle

NextPages ==
    \/ \E size \in 1 .. MaxSize, p \in Protection : NewAllocation(size, p)
    \/ \E n \in {PageSize, usable} : Write(n)
    \/ \E s \in ShrinkSizes : AllocationShrink(s)
    \/ AllocationDrop
    \/ \E start \in 0 .. MaxRange, end \in 0 .. MaxRange : ViewPages(start, end)
    \/ ViewDrop

SpecPages == InitPages /\ [][NextPages]_vars

\* C32: Allocation::shrink(s) panics unless s is less than the current
\* size; otherwise the result has the same base and the size align_P(s),
\* the bytes [0, align_P(s)) and their pages are as they were, no page of
\* [align_P(s), old size) is accessible any more, and when align_P(s) is the
\* old size nothing is released.
C32_AllocationShrink ==
    [][ \A s \in ShrinkSizes : AllocationShrink(s) =>
            /\ ~(s < usable) => res' = "panic"
            /\ s < usable =>
                /\ res' = "ok"
                /\ ret' = ret
                /\ usable' = PageAlign(s)
                /\ \A b \in Bytes(ret, PageAlign(s)) :
                        mem'[b] = mem[b] /\ page'[b \div PageSize] = page[b \div PageSize]
                /\ \A q \in PagesOf(ret + PageAlign(s), usable - PageAlign(s)) :
                        page'[q] \notin Protection
                /\ PageAlign(s) = usable => page' = page ]_vars

\* C40: for a range a .. b of pages with 0 <= a < b <= len, Allocation::pages
\* and Pages::pages both return the view that starts a * P bytes after the
\* base and is (b - a) * P bytes long; for a range that reaches outside the
\* pages both return None.
C40_PagesOfRange ==
    vpc = "viewed" =>
        LET a == range[1]
            b == range[2]
            length == PagesLen(usable)
        IN  /\ (a < b /\ b <= length) =>
                /\ aview = <<"Some", a * PageSize, (b - a) * PageSize>>
                /\ pview = <<"Some", a * PageSize, (b - a) * PageSize>>
            /\ (a >= length \/ b > length) =>
                /\ aview = <<"None">>
                /\ pview = <<"None">>

(***************************************************************************)
(* A guarded sequence of bytes (vec.rs): Vec<u8> = Guard<Vec<u8, Sensitive>>. *)
(* The inner vector is the standard one: it asks the allocator for the     *)
(* capacity it computes and keeps that capacity; growth of a buffer goes   *)
(* through Allocator::grow, which Sensitive does not override (alloc.rs    *)
(* 25-112): allocate, copy the old buffer, deallocate it.                  *)
(***************************************************************************)
MaxAdditional == 3

MaxSeqCapacity == 8

\* the smallest capacity an amortized growth chooses (8 for elements of one
\* byte, a quarter of CMP_MIN): scaled with CMP_MIN
MinNonZeroCap == CMP_MIN \div 2

\* capacity after reserve(additional): the larger of twice the capacity,
\* len + additional and the smallest non-zero capacity
Amortized(cap, used, additional) ==
    IF cap - used >= additional THEN cap
    ELSE Max(Max(2 * cap, used + additional), MinNonZeroCap)

\* capacity after reserve_exact(additional)
Exact(cap, used, additional) ==
    IF cap - used >= additional THEN cap ELSE used + additional

\* capacity the call named asks for
Grown(call, cap, used, additional) ==
    IF call = "Vec::reserve_exact" THEN Exact(cap, used, additional)
    ELSE Amortized(cap, used, additional)

\* protection of a buffer fresh from Sensitive::allocate
Fresh(cap) == IF cap > 0 THEN "rw" ELSE "none"

SeqInit ==
    /\ rpc = "start"
    /\ rcall = "none"
    /\ radd = 0
    /\ rword = 0
    /\ rcap = 0
    /\ rlen = 0
    /\ rprot = "none"
    /\ rold = "none"

\* Vec::new
SeqNew ==
    /\ rpc = "start"
    /\ rpc' = "idle"
    /\ rcall' = "new"
    /\ UNCHANGED <<notSeq, radd, rword, rcap, rlen, rprot, rold>>

\* Vec::with_capacity(capacity): with_capacity_unprotected, then mutate
VecWithCapacity(c) ==
    /\ rpc = "start"
    /\ rcall' = "Vec::with_capacity"
    /\ rcap' = AllocAlign(c)
    /\ rprot' = Fresh(AllocAlign(c))
    /\ rpc' = "enter"
    /\ UNCHANGED <<notSeq, radd, rword, rlen, rold>>

\* Vec::from(&mut [T]): with_capacity_unprotected(len), copy, set_len, zero
\* the source, guard.inner().lock()
SeqFrom(n) ==
    /\ rpc = "start"
    /\ rcall' = "from"
    /\ rcap' = AllocAlign(n)
    /\ rlen' = n
    /\ rprot' = Lock(Fresh(AllocAlign(n)))
    /\ rpc' = "idle"
    /\ UNCHANGED <<notSeq, radd, rword, rold>>

\* Vec::reserve / Vec::reserve_exact are called on the idle sequence
VecReserve(call, additional) ==
    /\ rpc = "idle"
    /\ Grown(call, rcap, rlen, additional) <= MaxSeqCapacity
    /\ rcall' = call
    /\ radd' = additional
    /\ rold' = "none"
    /\ rpc' = "enter"
    /\ UNCHANGED <<notSeq, rword, rcap, rlen, rprot>>

\* Guard::mutate: debug_assert_eq!(self.0.swap(ACC | MUT), 0)
SeqMutateEnter ==
    /\ rpc = "enter"
    /\ rword' = IF debug THEN ACC + MUT ELSE rword
    /\ rpc' = IF debug /\ rword # 0 THEN "abort" ELSE "mutation"
    /\ UNCHANGED <<notSeq, rcall, radd, rcap, rlen, rprot, rold>>

\* the mutation up to its lock(): nothing for with_capacity; vec.reserve /
\* vec.reserve_exact: nothing when the capacity suffices, allocate when
\* there is no buffer, else Allocator::grow, which begins with allocate
SeqMutation ==
    /\ rpc = "mutation"
    /\ IF rcall = "Vec::with_capacity" \/ Grown(rcall, rcap, rlen, radd) = rcap
       THEN /\ rpc' = "lock"
            /\ UNCHANGED <<rcap, rprot, rold>>
       ELSE /\ rcap' = Grown(rcall, rcap, rlen, radd)
            /\ rprot' = "rw"
            /\ rold' = rprot
            /\ rpc' = IF rcap = 0 THEN "lock" ELSE "grow_copy"
    /\ UNCHANGED <<notSeq, rcall, radd, rword, rlen>>

\* a load from a page of this protection does not trap
Readable(p) == p \in {"ro", "rw"}

\* Allocator::grow: copy_nonoverlapping(ptr, new_ptr, old_layout.size())
GrowCopy ==
    /\ rpc = "grow_copy"
    /\ rpc' = IF Readable(rold) THEN "grow_deallocate" ELSE "fault"
    /\ UNCHANGED <<notSeq, rcall, radd, rword, rcap, rlen, rprot, rold>>

\* the calls that run their mutation under Guard::mutate
VecCalls == {"Vec::with_capacity", "Vec::reserve", "Vec::reserve_exact"}

\* Allocator::grow: self.deallocate(ptr, old_layout), which makes the old
\* buffer read-write, zeroes and releases it (alloc.rs 57-77); the
\* mutation goes on with its lock(), the exclusive handle has returned
GrowDeallocate ==
    /\ rpc = "grow_deallocate"
    /\ rold' = "released"
    /\ rpc' = IF rcall \in VecCalls THEN "lock" ELSE "mut"
    /\ UNCHANGED <<notSeq, rcall, radd, rword, rcap, rlen, rprot>>

\* vec.lock(): protect(NoAccess) on the pages as_pages reports
SeqLock ==
    /\ rpc = "lock"
    /\ rprot' = Lock(rprot)
    /\ rpc' = "leave"
    /\ UNCHANGED <<notSeq, rcall, radd, rword, rcap, rlen, rold>>

\* Guard::mutate: debug_assert_eq!(self.0.swap(0), ACC | MUT)
SeqMutateLeave ==
    /\ rpc = "leave"
    /\ rword' = IF debug THEN 0 ELSE rword
    /\ rpc' = IF debug /\ rword # ACC + MUT THEN "abort" ELSE "idle"
    /\ UNCHANGED <<notSeq, rcall, radd, rcap, rlen, rprot, rold>>

\* borrow_mut: acquire_mut swaps to ACC | MUT and calls unlock_mut
SeqBorrowMut ==
    /\ rpc = "idle"
    /\ rword' = IF debug THEN ACC + MUT ELSE rword
    /\ rprot' = UnlockMut(rprot)
    /\ rcall' = "borrow_mut"
    /\ rpc' = "mut"
    /\ UNCHANGED <<notSeq, radd, rcap, rlen, rold>>

\* the capacity and length after an operation of the exclusive handle, which
\* delegates to the inner vector
After(op, n) ==
    CASE op = "push" -> <<Amortized(rcap, rlen, 1), rlen + 1>>
      [] op = "pop" -> <<rcap, IF rlen > 0 THEN rlen - 1 ELSE 0>>
      [] op = "reserve" -> <<Amortized(rcap, rlen, n), rlen>>
      [] op = "reserve_exact" -> <<Exact(rcap, rlen, n), rlen>>
      [] op = "shrink_to_fit" -> <<rlen, rlen>>
      [] op = "resize" -> <<IF n > rlen THEN Amortized(rcap, rlen, n - rlen) ELSE rcap, n>>

RefMutOps == {"push", "pop", "reserve", "reserve_exact", "shrink_to_fit", "resize"}

\* RefMut::push / pop / reserve / reserve_exact / shrink_to_fit / resize:
\* a growth of a buffer goes through Allocator::grow, a buffer shrunk keeps
\* its pages or is deallocated
RefMutOp(op, n) ==
    /\ rpc = "mut"
    /\ After(op, n)[1] <= MaxSeqCapacity
    /\ rcall' = op
    /\ radd' = n
    /\ rcap' = After(op, n)[1]
    /\ rlen' = After(op, n)[2]
    /\ rprot' = Fresh(After(op, n)[1])
    /\ IF After(op, n)[1] > rcap /\ rcap > 0
       THEN /\ rold' = rprot
            /\ rpc' = "grow_copy"
       ELSE /\ rold' = "none"
            /\ UNCHANGED rpc
    /\ UNCHANGED <<notSeq, rword>>

\* the exclusive handle is dropped: release_mut swaps to 0 and calls lock
SeqReleaseMut ==
    /\ rpc = "mut"
    /\ rword' = IF debug THEN 0 ELSE rword
    /\ rprot' = Lock(rprot)
    /\ rcall' = "drop"
    /\ rpc' = "idle"
    /\ UNCHANGED <<notSeq, radd, rcap, rlen, rold>>

InitSeq == GuardIdle /\ AllocIdle /\ SizesIdle /\ MoveIdle /\ EqIdle /\ OnceIdle /\ StringIdle /\ ViewIdle /\ SeqInit /\ PairIdle

NextSeq ==
    \/ SeqNew
    \/ \E c \in 0 .. MaxAdditional : VecWithCapacity(c)
    \/ \E n \in 0 .. MaxAdditional : SeqFrom(n)
    \/ \E call \in {"Vec::reserve", "Vec::reserve_exact"}, n \in 0 .. MaxAdditional : VecReserve(call, n)
    \/ SeqMutateEnter
    \/ SeqMutation
    \/ GrowCopy
    \/ GrowDeallocate
    \/ SeqLock
    \/ SeqMutateLeave
    \/ SeqBorrowMut
    \/ \E op \in RefMutOps, n \in 0 .. MaxAdditional : RefMutOp(op, n)
    \/ SeqReleaseMut

SpecSeq == InitSeq /\ [][NextSeq]_vars

\* a step with which with_capacity, reserve or reserve_exact returns
SeqReturns == SeqMutateLeave /\ rpc' = "idle"

C34_CapacityFloor ==
    rpc \in {"idle", "mut"} => rcap = 0 \/ rcap >= CMP_MIN

\* C36: Vec::reserve and Vec::reserve_exact on an idle guarded sequence of
\* non-zero capacity never read a byte of a page that is no-access: when a
\* growth copies the data, the old buffer is readable.
C36_GrowthReadsAccessible ==
    [][ (GrowCopy /\ rcall \in VecCalls) => Readable(rold) ]_vars

(***************************************************************************)
(* RefCount (refs.rs) beside Guard (guard.rs).  Both count references in   *)
(* one word; Guard calls lock(), unlock() and unlock_mut() of the value it *)
(* protects, RefCount calls the closures its caller passes, which Box      *)
(* (boxed.rs) binds to protect(..).  The two are driven by the same calls  *)
(* in the same interleaving.                                               *)
(***************************************************************************)
Machines == {"Guard", "RefCount"}

\* the protection Guard requests at a call site: unlock() on the first
\* acquisition, lock() or unlock() in the second closure of release,
\* unlock_mut() and lock() around an exclusive borrow
GuardCall(site) ==
    CASE site = "acquire" -> "ReadOnly"
      [] site = "last" -> "NoAccess"
      [] site = "reacquire" -> "ReadOnly"
      [] site = "acquire_mut" -> "ReadWrite"
      [] site = "release_mut" -> "NoAccess"
\* a Drop for Ref that passes its two closures in the other order
BoxCall_Swapped(site) ==
    CASE site = "acquire" -> "ReadOnly"
      [] site = "last" -> "ReadOnly"
      [] site = "reacquire" -> "NoAccess"
      [] site = "acquire_mut" -> "ReadWrite"
      [] site = "release_mut" -> "NoAccess"

\* the protection the closures of Box request at the same sites: borrow,
\* Drop for Ref (release, acquire), borrow_mut, Drop for RefMut
BoxCall(site) ==
    CASE site = "acquire" -> "ReadOnly"
      [] site = "last" -> "NoAccess"
      [] site = "reacquire" -> "ReadOnly"
      [] site = "acquire_mut" -> "ReadWrite"
      [] site = "release_mut" -> "NoAccess"

\* the protection call machine `m` makes at `site`
Call(m, site) == IF m = "Guard" THEN GuardCall(site) ELSE BoxCall(site)

\* machine state `s` after the call at `site`
Called(m, s, site) == [s EXCEPT !.prot = Call(m, site), !.call = Call(m, site)]

\* the next step of thread `t` in acquire(): fetch_add and the assertion,
\* the call on the first acquisition, fetch_or(ACC), or the spin loop
AcquireStep(m, s, t) ==
    LET x == s.word
        quiet == [s EXCEPT !.call = "none"]
    IN  CASE s.pc[t] = "idle" ->
               [quiet EXCEPT !.word = WrapInc(x), !.refs[t] = x,
                             !.pc[t] = IF ~(REF(x) < MAX) THEN "overflow"
                                       ELSE IF AcquireFirst(x) THEN "unlock"
                                       ELSE "spin"]
          [] s.pc[t] = "unlock" ->
               [Called(m, s, "acquire") EXCEPT !.pc[t] = "setacc"]
          [] s.pc[t] = "setacc" ->
               [quiet EXCEPT !.word = OrAcc(x), !.pc[t] = "held", !.refs[t] = 0]
          [] s.pc[t] = "spin" ->
               IF HasAcc(s.refs[t])
               THEN [quiet EXCEPT !.pc[t] = "held", !.refs[t] = 0]
               ELSE [quiet EXCEPT !.refs[t] = x]

\* the next step of thread `t` in release(): the first fetch_update, then
\* the load, the closure and the compare-exchange of the second
ReleaseStep(m, s, t) ==
    LET x == s.word
        r == s.refs[t]
        quiet == [s EXCEPT !.call = "none"]
    IN  CASE s.pc[t] = "held" ->
               IF debug /\ ~FirstAsserts(x)
               THEN [quiet EXCEPT !.pc[t] = "abort", !.refs[t] = x]
               ELSE [quiet EXCEPT !.word = FirstUpdate(x),
                                  !.pc[t] = IF REF(x) = 1 THEN "load" ELSE "idle"]
          [] s.pc[t] = "load" ->
               [quiet EXCEPT !.refs[t] = x, !.pc[t] = "closure"]
          [] s.pc[t] = "closure" ->
               IF debug /\ r # 1 /\ HasAcc(r)
               THEN [quiet EXCEPT !.pc[t] = "abort"]
               ELSE [Called(m, s, IF r = 1 THEN "last" ELSE "reacquire")
                        EXCEPT !.pc[t] = "cas"]
          [] s.pc[t] = "cas" ->
               IF x = r
               THEN [quiet EXCEPT !.word = SecondUpdate(r), !.pc[t] = "idle",
                                  !.refs[t] = 0]
               ELSE [quiet EXCEPT !.refs[t] = x, !.pc[t] = "closure"]

\* the next step of the owner in acquire_mut(): the swap inside
\* debug_assert_eq!, then the call
AcquireMutStep(m, s) ==
    CASE s.mpc = "idle" ->
           IF debug
           THEN [s EXCEPT !.word = ACC + MUT, !.call = "none",
                          !.mpc = IF AssertIdle(s.word) THEN "unlock_mut" ELSE "abort"]
           ELSE [s EXCEPT !.call = "none", !.mpc = "unlock_mut"]
      [] s.mpc = "unlock_mut" ->
           [Called(m, s, "acquire_mut") EXCEPT !.mpc = "held_mut"]

\* the next step of the owner in release_mut(): the swap inside
\* debug_assert_eq!, then the call
ReleaseMutStep(m, s) ==
    CASE s.mpc = "held_mut" ->
           IF debug
           THEN [s EXCEPT !.word = 0, !.call = "none",
                          !.mpc = IF s.word = ACC + MUT THEN "lock" ELSE "abort"]
           ELSE [s EXCEPT !.call = "none", !.mpc = "lock"]
      [] s.mpc = "lock" ->
           [Called(m, s, "release_mut") EXCEPT !.mpc = "idle"]

\* Box::new: the word is 0 and the pages are inaccessible
PairInit ==
    machines = [m \in Machines |->
                 [word |-> 0, prot |-> "NoAccess", call |-> "none",
                  pc |-> [t \in Thread |-> "idle"],
                  refs |-> [t \in Thread |-> 0], mpc |-> "idle"]]

\* no thread of machine state `s` holds or is taking a shared handle
Unshared(s) == \A t \in Thread : s.pc[t] \in {"idle", "overflow", "abort"}

\* thread `t` takes the next step of borrow() on both: a shared borrow
\* starts only while no exclusive handle exists
PairAcquire(t) ==
    /\ \A m \in Machines :
          /\ machines[m].pc[t] \in {"idle", "unlock", "setacc", "spin"}
          /\ machines[m].pc[t] = "idle" => machines[m].mpc = "idle"
    /\ machines' = [m \in Machines |-> AcquireStep(m, machines[m], t)]
    /\ UNCHANGED notPair

\* thread `t` takes the next step of dropping its Ref on both
PairRelease(t) ==
    /\ \A m \in Machines : machines[m].pc[t] \in {"held", "load", "closure", "cas"}
    /\ machines' = [m \in Machines |-> ReleaseStep(m, machines[m], t)]
    /\ UNCHANGED notPair

\* the owner takes the next step of borrow_mut(&mut self) on both
PairAcquireMut ==
    /\ \A m \in Machines :
          /\ machines[m].mpc \in {"idle", "unlock_mut"}
          /\ machines[m].mpc = "idle" => Unshared(machines[m])
    /\ machines' = [m \in Machines |-> AcquireMutStep(m, machines[m])]
    /\ UNCHANGED notPair

\* the owner takes the next step of dropping its RefMut on both
PairReleaseMut ==
    /\ \A m \in Machines : machines[m].mpc \in {"held_mut", "lock"}
    /\ machines' = [m \in Machines |-> ReleaseMutStep(m, machines[m])]
    /\ UNCHANGED notPair

InitPair == GuardIdle /\ AllocIdle /\ SizesIdle /\ MoveIdle /\ EqIdle /\ OnceIdle /\ StringIdle /\ ViewIdle /\ SeqIdle /\ PairInit

NextPair ==
    \/ \E t \in Thread : PairAcquire(t)
    \/ \E t \in Thread : PairRelease(t)
    \/ PairAcquireMut
    \/ PairReleaseMut

SpecPair == InitPair /\ [][NextPair]_vars

====
